---- MODULE Spec2Model ----
(***************************************************************************)
(* Verification model of the JoshBank design-pattern examples.             *)
(*                                                                         *)
(* Part 1: behavioral/chain-of-responsibility/main.go, the transaction     *)
(* approval chain.  Handlers are heap objects linked through               *)
(* BaseHandler.next; a Handle call walks the links by nested calls.  Every *)
(* nested call is one step of the model, so that the order in which        *)
(* handlers are consulted, and interleavings of several calls, are         *)
(* visible.                                                                *)
(*                                                                         *)
(* Part 2: behavioral/state/main.go, the account whose operations depend   *)
(* on its current state (Active, Frozen, Closed).                          *)
(*                                                                         *)
(* Part 3: the singleton configuration manager (creational/singleton),     *)
(* whose GetInstance initialises the instance under sync.Once.             *)
(*                                                                         *)
(* Part 4: the command example: a BankingController that executes command  *)
(* objects on two accounts and undoes them from its history.               *)
(*                                                                         *)
(* Part 5: the memento example: an Account saving mementos into a          *)
(* TransactionHistory with Undo and Redo.                                  *)
(*                                                                         *)
(* Part 6: creational/prototype/main.go: account templates cloned from a   *)
(* registry; slices are headers over shared backing arrays.                *)
(*                                                                         *)
(* Part 7: the builder example: CustomerProfileBuilder and the profile     *)
(* Build returns.                                                          *)
(*                                                                         *)
(* Part 8: behavioral/observer/main.go: TransactionService and its list    *)
(* of observers.                                                           *)
(*                                                                         *)
(* Part 9: behavioral/iterator/main.go: the array and the linked-list      *)
(* history, driven by the same calls.                                      *)
(*                                                                         *)
(* Part 10: the caching proxy of the proxy example.                        *)
(*                                                                         *)
(* Part 11: GetConfig, SetConfig and GetAllConfig of the singleton, called *)
(* by several goroutines under its RWMutex.                                *)
(***************************************************************************)
EXTENDS Integers, Sequences, FiniteSets, TLC

VARIABLES
    name,       \* the name field of every handler object
    next,       \* BaseHandler.next of every handler object
    first,      \* the handler the client sends requests to (main: lowAmount)
    built,      \* the handler sequence the chained linking call was given
    buildErr,   \* error reported by linking (SetNext has no error result)
    pc,         \* per goroutine: position of its Handle call
    head,       \* per goroutine: the handler Handle was called on
    request,    \* per goroutine: the TransactionRequest passed along
    cur,        \* per goroutine: the handler whose Handle body runs next
    consulted,  \* per goroutine: handlers whose Handle body has run, in order
    claimed,    \* per goroutine: handlers that printed "Approved"
    result      \* per goroutine: the bool returned to the client

VARIABLES
    currentState,  \* Account.currentState: "none" before NewAccount
    balance,       \* Account.balance
    message,       \* the string the last operation returned (and printed)
    lastCall,      \* the last operation called, with the state it found
    manual         \* SetState or SetBalance has been called on the account

VARIABLES
    onceDone,      \* sync.Once: the done flag
    onceM,         \* sync.Once: the goroutine holding its mutex, or 0
    instance,      \* the package variable instance: 0 is nil
    config,        \* instance.config: the keys loaded so far
    created,       \* number of JoshBankConfigManager objects created
    gpc,           \* per caller: position in GetInstance
    got            \* per caller: what GetInstance returned

VARIABLES
    cmdStarted,      \* main has created the accounts and the controller
    cmdBalance,      \* Account.balance of the two accounts
    success,         \* the success field of every withdraw and transfer command object
    history,         \* BankingController.history, oldest first
    openingBalance,  \* the balances before the first command
    executed         \* number of ExecuteCommand calls made so far

VARIABLES
    mBalance,  \* memento example: Account.balance, -1 before NewAccount
    mementos,  \* TransactionHistory.mementos
    mcurrent,  \* TransactionHistory.current
    saves,     \* number of mementos created so far (their timestamps)
    mLast,     \* the last call on the history: operation, result, current before it
    mPrev      \* the call on the history before that one

VARIABLES
    objects,     \* prototype example: the account objects on the heap, templates first
    arrays,      \* the backing arrays of the objects' Features slices
    registry,    \* AccountTemplateRegistry.templates: key to object
    protoClock,  \* time.Now(), counted in Customize calls
    protoActed   \* the object the last operation was called on or created, 0 for none

VARIABLES
    profiles,     \* builder example: the CustomerProfile objects on the heap
    bprofile,     \* CustomerProfileBuilder.profile of the current builder: a pointer
    builtRef,     \* the pointer the last successful Build returned, 0 for none
    builtView,    \* what that profile held when Build returned
    buildError,   \* the error of the last Build
    setterCalls   \* number of setter calls made so far

VARIABLES
    observers,   \* observer example: TransactionService.observers
    lastEvent,   \* the transaction of the last NotifyObservers, with its status
    delivered,   \* per observer: Update calls it received in the last NotifyObservers
    removed,     \* per observer: RemoveObserver has returned and it was not registered since
    lateUpdate,  \* per observer: it received an Update while removed
    missedUpdate   \* per observer: a notification passed it by while it was in the list

VARIABLES
    transactions,  \* iterator example: ArrayTransactionHistory.transactions
    nodes,         \* the TransactionNode objects on the heap
    llHead,        \* LinkedListTransactionHistory.head: a node, 0 for nil
    iterCreated,   \* CreateIterator has been called on both collections
    arrIndex,      \* ArrayIterator.index
    llCurrent,     \* LinkedListIterator.current
    llIterHead,    \* LinkedListIterator.head
    arrResult,     \* what the last HasNext or Next on the array iterator returned
    llResult       \* what the last HasNext or Next on the linked-list iterator returned

VARIABLES
    cache,        \* proxy example: CachingProxy.cache, the set of keys with their rates
    rateCalls,    \* number of GetRate calls made on the proxy
    lastRequest,  \* the currency pair of the last GetRate call
    proxyRate,    \* what CachingProxy.GetRate returned for it
    realRate,     \* what RealExchangeRateService.GetRate returns for it
    cacheHit      \* the last call was answered from the cache

VARIABLES
    cfgMap,        \* config access: the config map of the one JoshBankConfigManager
    rwWriter,      \* mu: the caller holding the write lock, 0 for none
    rwReaders,     \* mu: the callers holding a read lock
    cpc,           \* where each caller is in its GetConfig, SetConfig or GetAllConfig call
    creq,          \* the call each caller is making
    cfloor,        \* for a GetConfig call: the latest write of its key whose SetConfig had returned when the call started
    cret,          \* what the caller's last GetConfig or GetAllConfig read
    cpos,          \* the place in writeLog of the caller's last write
    writeLog,      \* for each key, the values written to it, in order
    returnedSets,  \* for each key, the latest write whose SetConfig has returned
    staleRead,     \* a GetConfig read a value older than the write it started after
    configCalls    \* number of calls started

chainVars == <<name, next, first, built, buildErr>>
callVars == <<pc, head, request, cur, consulted, claimed, result>>
accountVars == <<currentState, balance, message, lastCall, manual>>
singletonVars == <<onceDone, onceM, instance, config, created, gpc, got>>
commandVars == <<cmdStarted, cmdBalance, success, history, openingBalance, executed>>
mementoVars == <<mBalance, mementos, mcurrent, saves, mLast, mPrev>>
prototypeVars == <<objects, arrays, registry, protoClock, protoActed>>
builderVars == <<profiles, bprofile, builtRef, builtView, buildError, setterCalls>>
observerVars == <<observers, lastEvent, delivered, removed, lateUpdate, missedUpdate>>
iteratorVars == <<transactions, nodes, llHead, iterCreated, arrIndex, llCurrent, llIterHead, arrResult, llResult>>
proxyVars == <<cache, rateCalls, lastRequest, proxyRate, realRate, cacheHit>>
configVars == <<cfgMap, rwWriter, rwReaders, cpc, creq, cfloor, cret, cpos, writeLog, returnedSets, staleRead, configCalls>>

\* What the actions of one example leave alone: the other examples.
nonChainVars == <<accountVars, singletonVars, commandVars, mementoVars, prototypeVars, builderVars, observerVars, iteratorVars, proxyVars, configVars>>
nonAccountVars == <<chainVars, callVars, singletonVars, commandVars, mementoVars, prototypeVars, builderVars, observerVars, iteratorVars, proxyVars, configVars>>
nonSingletonVars == <<chainVars, callVars, accountVars, commandVars, mementoVars, prototypeVars, builderVars, observerVars, iteratorVars, proxyVars, configVars>>
nonCommandVars == <<chainVars, callVars, accountVars, singletonVars, mementoVars, prototypeVars, builderVars, observerVars, iteratorVars, proxyVars, configVars>>
nonMementoVars == <<chainVars, callVars, accountVars, singletonVars, commandVars, prototypeVars, builderVars, observerVars, iteratorVars, proxyVars, configVars>>
nonPrototypeVars == <<chainVars, callVars, accountVars, singletonVars, commandVars, mementoVars, builderVars, observerVars, iteratorVars, proxyVars, configVars>>
nonBuilderVars == <<chainVars, callVars, accountVars, singletonVars, commandVars, mementoVars, prototypeVars, observerVars, iteratorVars, proxyVars, configVars>>
nonObserverVars == <<chainVars, callVars, accountVars, singletonVars, commandVars, mementoVars, prototypeVars, builderVars, iteratorVars, proxyVars, configVars>>
nonIteratorVars == <<chainVars, callVars, accountVars, singletonVars, commandVars, mementoVars, prototypeVars, builderVars, observerVars, proxyVars, configVars>>
nonProxyVars == <<chainVars, callVars, accountVars, singletonVars, commandVars, mementoVars, prototypeVars, builderVars, observerVars, iteratorVars, configVars>>
nonConfigVars == <<chainVars, callVars, accountVars, singletonVars, commandVars, mementoVars, prototypeVars, builderVars, observerVars, iteratorVars, proxyVars>>

vars == <<chainVars, callVars, accountVars, singletonVars, commandVars, mementoVars, prototypeVars, builderVars, observerVars, iteratorVars, proxyVars, configVars>>

----------------------------------------------------------------------------
(* Bounds *)

\* Depth of nested Handle calls at which the goroutine stack is exhausted.
\* Go has no tail calls: "return h.next.Handle(request)" keeps the frame.
MaxDepth == 6

\* Goroutines calling Handle on one chain in the concurrent specification.
NumGoroutines == 2

----------------------------------------------------------------------------
(* Program constants *)

LowLimit == 1000
MediumLimit == 10000
ManagerLimit == 50000

Nil == "nil"

\* The four handler objects main creates.
MainHandlers == {"lowAmount", "mediumAmount", "manager", "director"}

\* A second LowAmountHandler as well (the constructors may be called any
\* number of times); it is linked only by BuildChain.
Handlers == MainHandlers \cup {"lowAmount2"}

HandlerOrNil == Handlers \cup {Nil}

Kind(h) ==
    CASE h = "lowAmount" -> "LowAmountHandler"
      [] h = "lowAmount2" -> "LowAmountHandler"
      [] h = "mediumAmount" -> "MediumAmountHandler"
      [] h = "manager" -> "ManagerHandler"
      [] h = "director" -> "DirectorHandler"

\* Request amounts (float64 in the source; every comparison in the source is
\* against a whole number, so whole amounts around each threshold suffice).
Amounts == {-1, 0, 500, 1000, 5000, 10000, 25000, 50000, 100000}

Goroutines == 1..NumGoroutines
MainGoroutine == {1}

NoRequest ==
    [ID |-> "none", CustomerID |-> "none", Amount |-> 0, Type |-> "none",
     Description |-> "none", Priority |-> "none"]

TransactionRequest(a) ==
    [ID |-> "TXN", CustomerID |-> "CUST", Amount |-> a, Type |-> "transfer",
     Description |-> "Payment", Priority |-> "low"]

\* Mutant: the supervisor and the manager are constructed with each other's
\* name.
HandlerName_Swapped(h) ==
    CASE h = "lowAmount" -> "Auto-Approval System"
      [] h = "mediumAmount" -> "Manager"
      [] h = "manager" -> "Supervisor"
      [] h = "director" -> "Director"
      [] h = "lowAmount2" -> "Auto-Approval System 2"

\* The names the constructors are given.
HandlerName(h) ==
    CASE h = "lowAmount" -> "Auto-Approval System"
      [] h = "mediumAmount" -> "Supervisor"
      [] h = "manager" -> "Manager"
      [] h = "director" -> "Director"
      [] h = "lowAmount2" -> "Auto-Approval System 2"

----------------------------------------------------------------------------
(* The conditions under which each concrete handler approves *)

\* Mutant: the low band with its upper end excluded.
LowAmountHandler_Accepts_Strict(amount) == amount < LowLimit

\* Mutant: the low band with a lower end at zero.
LowAmountHandler_Accepts_NonNegative(amount) == amount >= 0 /\ amount <= LowLimit

LowAmountHandler_Accepts(amount) == amount <= LowLimit

MediumAmountHandler_Accepts(amount) == amount > LowLimit /\ amount <= MediumLimit

\* Mutant: the manager band taken as half-open [10000, 50000).
ManagerHandler_Accepts_HalfOpen(amount) == amount >= MediumLimit /\ amount < ManagerLimit

ManagerHandler_Accepts(amount) == amount > MediumLimit /\ amount <= ManagerLimit

DirectorHandler_Accepts(amount) == amount > ManagerLimit

Accepts(h, amount) ==
    CASE Kind(h) = "LowAmountHandler" -> LowAmountHandler_Accepts(amount)
      [] Kind(h) = "MediumAmountHandler" -> MediumAmountHandler_Accepts(amount)
      [] Kind(h) = "ManagerHandler" -> ManagerHandler_Accepts(amount)
      [] Kind(h) = "DirectorHandler" -> DirectorHandler_Accepts(amount)

----------------------------------------------------------------------------
(* Linking *)

\* A stack overflow is fatal to the whole program, not to one goroutine.
Alive == \A u \in Goroutines : pc[u] # "overflow"

NoCallInProgress == \A t \in Goroutines : pc[t] = "idle"

\* Mutant: a link is stored while a Handle call is on the stack.
BaseHandler_SetNext_Anytime(h, g) ==
    /\ Alive
    /\ next' = [next EXCEPT ![h] = g]
    /\ UNCHANGED <<name, first, built, buildErr>>
    /\ UNCHANGED callVars
    /\ UNCHANGED nonChainVars

\* h.SetNext(g): stores g (possibly nil) and returns it; no validation.
BaseHandler_SetNext(h, g) ==
    /\ NoCallInProgress
    /\ next' = [next EXCEPT ![h] = g]
    /\ UNCHANGED <<name, first, built, buildErr>>
    /\ UNCHANGED callVars
    /\ UNCHANGED nonChainVars

\* Mutant: SetNext returns its receiver, so every call of the chained
\* expression has receiver hs[1].
RECURSIVE LinkAll_OnReceiver(_, _, _)
LinkAll_OnReceiver(nxt, hs, i) ==
    IF i >= Len(hs) THEN nxt
    ELSE LinkAll_OnReceiver([nxt EXCEPT ![hs[1]] = hs[i + 1]], hs, i + 1)

\* The links after hs[1].SetNext(hs[2]).SetNext(hs[3])... : SetNext returns
\* its argument, so call i has receiver hs[i] and argument hs[i+1].
RECURSIVE LinkAll(_, _, _)
LinkAll(nxt, hs, i) ==
    IF i >= Len(hs) THEN nxt
    ELSE LinkAll([nxt EXCEPT ![hs[i]] = hs[i + 1]], hs, i + 1)

\* Handler sequences given to the chained linking call.
BuildInputs ==
    { <<>>,
      <<"lowAmount">>,
      <<"lowAmount", "mediumAmount", "manager", "director">>,
      <<"lowAmount", "director">>,
      <<"lowAmount", "lowAmount2", "mediumAmount">>,
      <<"director", "lowAmount", "lowAmount2">>,
      <<"lowAmount", "mediumAmount", "lowAmount">> }

\* Mutant: the client's entry point is hard-wired to lowAmount, whatever was
\* linked.
BuildChain_FixedFirst(hs) ==
    /\ ~built.done
    /\ \A t \in Goroutines : pc[t] = "idle"
    /\ next' = LinkAll(next, hs, 1)
    /\ first' = "lowAmount"
    /\ built' = [done |-> TRUE, hs |-> hs]
    /\ buildErr' = "none"
    /\ UNCHANGED <<name, pc, head, request, cur, consulted, claimed, result>>
    /\ UNCHANGED nonChainVars

\* main's construction: fresh handlers linked in the given order; the client
\* keeps the first one.  Nothing is checked and nothing can fail.
BuildChain(hs) ==
    /\ ~built.done
    /\ NoCallInProgress
    /\ next' = LinkAll(next, hs, 1)
    /\ first' = IF hs = <<>> THEN Nil ELSE hs[1]
    /\ built' = [done |-> TRUE, hs |-> hs]
    /\ buildErr' = "none"
    /\ UNCHANGED name
    /\ UNCHANGED callVars
    /\ UNCHANGED nonChainVars

----------------------------------------------------------------------------
(* One Handle call, step by step *)

\* The client calls h.Handle(request).
Handle_Call(t, h, a) ==
    /\ Alive
    /\ pc[t] = "idle"
    /\ pc' = [pc EXCEPT ![t] = "running"]
    /\ head' = [head EXCEPT ![t] = h]
    /\ request' = [request EXCEPT ![t] = TransactionRequest(a)]
    /\ cur' = [cur EXCEPT ![t] = h]
    /\ consulted' = [consulted EXCEPT ![t] = <<>>]
    /\ claimed' = [claimed EXCEPT ![t] = <<>>]
    /\ result' = [result EXCEPT ![t] = "none"]
    /\ UNCHANGED chainVars
    /\ UNCHANGED nonChainVars

\* Mutant: the approving handler is moved up to directly follow the head, to
\* be found sooner next time.
Approve_Promote(t, h) ==
    /\ claimed' = [claimed EXCEPT ![t] = Append(@, h)]
    /\ result' = [result EXCEPT ![t] = "true"]
    /\ pc' = [pc EXCEPT ![t] = "returned"]
    /\ cur' = [cur EXCEPT ![t] = Nil]
    /\ next' = IF h # head[t] THEN [next EXCEPT ![head[t]] = h] ELSE next
    /\ UNCHANGED <<head, request, name, first, built, buildErr>>
    /\ UNCHANGED nonChainVars

\* "return true" after printing the approval.
Approve(t, h) ==
    /\ claimed' = [claimed EXCEPT ![t] = Append(@, h)]
    /\ result' = [result EXCEPT ![t] = "true"]
    /\ pc' = [pc EXCEPT ![t] = "returned"]
    /\ cur' = [cur EXCEPT ![t] = Nil]
    /\ UNCHANGED <<head, request>>
    /\ UNCHANGED chainVars
    /\ UNCHANGED nonChainVars

\* Mutant: a request nobody claimed is reported as handled.
ReturnFalse_AsTrue(t) ==
    /\ result' = [result EXCEPT ![t] = "true"]
    /\ pc' = [pc EXCEPT ![t] = "returned"]
    /\ cur' = [cur EXCEPT ![t] = Nil]
    /\ UNCHANGED <<head, request, claimed>>
    /\ UNCHANGED chainVars
    /\ UNCHANGED nonChainVars

\* "return false": the whole stack of nested calls unwinds with false.
ReturnFalse(t) ==
    /\ result' = [result EXCEPT ![t] = "false"]
    /\ pc' = [pc EXCEPT ![t] = "returned"]
    /\ cur' = [cur EXCEPT ![t] = Nil]
    /\ UNCHANGED <<head, request, claimed>>
    /\ UNCHANGED chainVars
    /\ UNCHANGED nonChainVars

\* Mutant: the request is marked as escalated when it is passed on.
CallNext_MarkEscalated(t, g) ==
    /\ IF Len(consulted'[t]) >= MaxDepth
       THEN /\ pc' = [pc EXCEPT ![t] = "overflow"]
            /\ cur' = [cur EXCEPT ![t] = Nil]
       ELSE /\ pc' = pc
            /\ cur' = [cur EXCEPT ![t] = g]
    /\ request' = [request EXCEPT ![t].Priority = "escalated"]
    /\ UNCHANGED <<head, claimed, result>>
    /\ UNCHANGED chainVars
    /\ UNCHANGED nonChainVars

\* h.next.Handle(request): one more frame, or the stack limit is hit and the
\* runtime aborts the program.
CallNext(t, g) ==
    /\ IF Len(consulted'[t]) >= MaxDepth
       THEN /\ pc' = [pc EXCEPT ![t] = "overflow"]
            /\ cur' = [cur EXCEPT ![t] = Nil]
       ELSE /\ pc' = pc
            /\ cur' = [cur EXCEPT ![t] = g]
    /\ UNCHANGED <<head, request, claimed, result>>
    /\ UNCHANGED chainVars
    /\ UNCHANGED nonChainVars

\* Mutant: h.Handle(request) instead of h.next.Handle(request).
BaseHandler_HandleNext_Self(t, h) ==
    IF next[h] # Nil THEN CallNext(t, h) ELSE ReturnFalse(t)

\* Mutant: the link is consumed when the request is passed along it.
BaseHandler_HandleNext_Unlink(t, h) ==
    IF next[h] # Nil
    THEN /\ cur' = [cur EXCEPT ![t] = next[h]]
         /\ next' = [next EXCEPT ![h] = Nil]
         /\ UNCHANGED <<pc, head, request, claimed, result, name, first, built, buildErr>>
         /\ UNCHANGED nonChainVars
    ELSE ReturnFalse(t)

BaseHandler_HandleNext(t, h) ==
    IF next[h] # Nil THEN CallNext(t, next[h]) ELSE ReturnFalse(t)

Running(t, kind) ==
    /\ Alive
    /\ pc[t] = "running"
    /\ cur[t] # Nil
    /\ Kind(cur[t]) = kind

\* Mutant: the "return true" after the approval is missing, so the request
\* is passed on as well.
LowAmountHandler_Handle_NoReturn(t) ==
    /\ Running(t, "LowAmountHandler")
    /\ consulted' = [consulted EXCEPT ![t] = Append(@, cur[t])]
    /\ IF LowAmountHandler_Accepts(request[t].Amount)
       THEN IF next[cur[t]] # Nil
            THEN /\ claimed' = [claimed EXCEPT ![t] = Append(@, cur[t])]
                 /\ cur' = [cur EXCEPT ![t] = next[cur[t]]]
                 /\ UNCHANGED <<pc, head, request, result>>
                 /\ UNCHANGED chainVars
                 /\ UNCHANGED nonChainVars
            ELSE Approve(t, cur[t])
       ELSE BaseHandler_HandleNext(t, cur[t])

LowAmountHandler_Handle(t) ==
    /\ Running(t, "LowAmountHandler")
    /\ consulted' = [consulted EXCEPT ![t] = Append(@, cur[t])]
    /\ IF LowAmountHandler_Accepts(request[t].Amount)
       THEN Approve(t, cur[t])
       ELSE BaseHandler_HandleNext(t, cur[t])

MediumAmountHandler_Handle(t) ==
    /\ Running(t, "MediumAmountHandler")
    /\ consulted' = [consulted EXCEPT ![t] = Append(@, cur[t])]
    /\ IF MediumAmountHandler_Accepts(request[t].Amount)
       THEN Approve(t, cur[t])
       ELSE BaseHandler_HandleNext(t, cur[t])

ManagerHandler_Handle(t) ==
    /\ Running(t, "ManagerHandler")
    /\ consulted' = [consulted EXCEPT ![t] = Append(@, cur[t])]
    /\ IF ManagerHandler_Accepts(request[t].Amount)
       THEN Approve(t, cur[t])
       ELSE BaseHandler_HandleNext(t, cur[t])

\* The director never looks at its next link.
DirectorHandler_Handle(t) ==
    /\ Running(t, "DirectorHandler")
    /\ consulted' = [consulted EXCEPT ![t] = Append(@, cur[t])]
    /\ IF DirectorHandler_Accepts(request[t].Amount)
       THEN Approve(t, cur[t])
       ELSE ReturnFalse(t)

\* The client has looked at the returned bool ("handled") and goes on.
Handle_Return(t) ==
    /\ Alive
    /\ pc[t] = "returned"
    /\ pc' = [pc EXCEPT ![t] = "idle"]
    /\ head' = [head EXCEPT ![t] = Nil]
    /\ request' = [request EXCEPT ![t] = NoRequest]
    /\ consulted' = [consulted EXCEPT ![t] = <<>>]
    /\ claimed' = [claimed EXCEPT ![t] = <<>>]
    /\ result' = [result EXCEPT ![t] = "none"]
    /\ UNCHANGED cur
    /\ UNCHANGED chainVars
    /\ UNCHANGED nonChainVars

----------------------------------------------------------------------------
(* Part 2: the account and its states (behavioral/state/main.go) *)

\* Guards that keep the balance in a finite range.
BalanceCap == 2000
DebtCap == 400

AccountStates == {"Active", "Frozen", "Closed"}

\* Amounts passed to Deposit and Withdraw (float64, not validated: main's
\* sample amounts and a negative one).
OpAmounts == {-200, 50, 100, 150, 200, 500, 1500}

\* Balances passed to NewAccount and to SetBalance.
InitialBalances == {0, 1000}
SetBalances == {-100, 0}

InRange(b) == -DebtCap <= b /\ b <= BalanceCap

NoCall == [op |-> "none", amount |-> 0, state |-> "none", balance |-> 0]

Called(op, amount) ==
    [op |-> op, amount |-> amount, state |-> currentState, balance |-> balance]

NewAccount(initialBalance) ==
    /\ currentState = "none"
    /\ balance' = initialBalance
    /\ currentState' = "Active"
    /\ message' = "none"
    /\ lastCall' = Called("NewAccount", initialBalance)
    /\ UNCHANGED manual
    /\ UNCHANGED nonAccountVars

ActiveState_Deposit(amount) ==
    /\ balance' = balance + amount
    /\ message' = "Deposited"
    /\ UNCHANGED currentState

ActiveState_Withdraw(amount) ==
    IF balance >= amount
    THEN /\ balance' = balance - amount
         /\ message' = "Withdrew"
         /\ UNCHANGED currentState
    ELSE /\ message' = "Insufficient funds"
         /\ UNCHANGED <<balance, currentState>>

ActiveState_Close ==
    /\ currentState' = "Closed"
    /\ message' = "Account closed"
    /\ UNCHANGED balance

\* Mutant: the account is unfrozen as soon as the balance is no longer
\* negative.
FrozenState_Deposit_AtZero(amount) ==
    /\ balance' = balance + amount
    /\ IF balance' >= 0
       THEN currentState' = "Active" /\ message' = "Deposited. Account unfrozen"
       ELSE currentState' = currentState /\ message' = "Deposited. Account still frozen"

FrozenState_Deposit(amount) ==
    /\ balance' = balance + amount
    /\ IF balance' > 0
       THEN currentState' = "Active" /\ message' = "Deposited. Account unfrozen"
       ELSE currentState' = currentState /\ message' = "Deposited. Account still frozen"

\* Mutant: the frozen state withdraws like the active one.
FrozenState_Withdraw_Allowed(amount) ==
    IF balance >= amount
    THEN /\ balance' = balance - amount
         /\ message' = "Withdrew"
         /\ UNCHANGED currentState
    ELSE /\ message' = "Insufficient funds"
         /\ UNCHANGED <<balance, currentState>>

FrozenState_Withdraw(amount) ==
    /\ message' = "Account is frozen. Cannot withdraw"
    /\ UNCHANGED <<balance, currentState>>

FrozenState_Close ==
    /\ currentState' = "Closed"
    /\ message' = "Account closed"
    /\ UNCHANGED balance

\* Mutant: the closed state still books the deposit.
ClosedState_Deposit_Booked(amount) ==
    /\ balance' = balance + amount
    /\ message' = "Account is closed. Cannot deposit"
    /\ UNCHANGED currentState

ClosedState_Deposit(amount) ==
    /\ message' = "Account is closed. Cannot deposit"
    /\ UNCHANGED <<balance, currentState>>

ClosedState_Withdraw(amount) ==
    /\ message' = "Account is closed. Cannot withdraw"
    /\ UNCHANGED <<balance, currentState>>

ClosedState_Close ==
    /\ message' = "Account is already closed"
    /\ UNCHANGED <<balance, currentState>>

\* a.currentState.Deposit(amount)
Account_Deposit(amount) ==
    /\ currentState \in AccountStates
    /\ currentState # "Closed" => InRange(balance + amount)
    /\ CASE currentState = "Active" -> ActiveState_Deposit(amount)
         [] currentState = "Frozen" -> FrozenState_Deposit(amount)
         [] currentState = "Closed" -> ClosedState_Deposit(amount)
    /\ lastCall' = Called("Deposit", amount)
    /\ UNCHANGED manual
    /\ UNCHANGED nonAccountVars

\* a.currentState.Withdraw(amount)
Account_Withdraw(amount) ==
    /\ currentState \in AccountStates
    /\ currentState # "Closed" => InRange(balance - amount)
    /\ CASE currentState = "Active" -> ActiveState_Withdraw(amount)
         [] currentState = "Frozen" -> FrozenState_Withdraw(amount)
         [] currentState = "Closed" -> ClosedState_Withdraw(amount)
    /\ lastCall' = Called("Withdraw", amount)
    /\ UNCHANGED manual
    /\ UNCHANGED nonAccountVars

\* a.currentState.Close()
Account_Close ==
    /\ currentState \in AccountStates
    /\ CASE currentState = "Active" -> ActiveState_Close
         [] currentState = "Frozen" -> FrozenState_Close
         [] currentState = "Closed" -> ClosedState_Close
    /\ lastCall' = Called("Close", 0)
    /\ UNCHANGED manual
    /\ UNCHANGED nonAccountVars

Account_SetState(state) ==
    /\ currentState \in AccountStates
    /\ currentState' = state
    /\ lastCall' = Called("SetState", 0)
    /\ manual' = TRUE
    /\ UNCHANGED <<balance, message>>
    /\ UNCHANGED nonAccountVars

Account_SetBalance(b) ==
    /\ currentState \in AccountStates
    /\ balance' = b
    /\ lastCall' = Called("SetBalance", b)
    /\ manual' = TRUE
    /\ UNCHANGED <<currentState, message>>
    /\ UNCHANGED nonAccountVars

----------------------------------------------------------------------------
(* Part 3: the singleton configuration manager (creational/singleton) *)

\* Goroutines calling GetInstance at the same time (main starts five).
NumCallers == 3

Callers == 1..NumCallers

\* loadDefaultConfig's assignments, in order.
DefaultConfig ==
    << <<"bank_name", "JoshBank">>,
       <<"version", "1.0.0">>,
       <<"database_url", "postgres://localhost:5432/joshbank">>,
       <<"max_connections", "100">>,
       <<"api_timeout", "30s">>,
       <<"transaction_limit", "10000">>,
       <<"kyc_provider", "internal">> >>

EmptyMap == [k \in {} |-> "none"]

\* The map after the first n assignments of loadDefaultConfig.
RECURSIVE Loaded(_)
Loaded(n) ==
    IF n = 0 THEN EmptyMap
    ELSE (DefaultConfig[n][1] :> DefaultConfig[n][2]) @@ Loaded(n - 1)

NothingReturned == [instance |-> 0, config |-> EmptyMap]

\* Mutant: lazy initialisation by a plain nil test instead of once.Do.
GetInstance_Enter_NilTest(g) ==
    /\ gpc[g] = "start"
    /\ gpc' = [gpc EXCEPT ![g] = IF instance # 0 THEN "return" ELSE "create"]
    /\ UNCHANGED <<onceDone, onceM, instance, config, created, got>>
    /\ UNCHANGED nonSingletonVars

\* once.Do, fast path: the done flag is read without the mutex.
GetInstance_Enter(g) ==
    /\ gpc[g] = "start"
    /\ gpc' = [gpc EXCEPT ![g] = IF onceDone THEN "return" ELSE "lock"]
    /\ UNCHANGED <<onceDone, onceM, instance, config, created, got>>
    /\ UNCHANGED nonSingletonVars

\* once.Do, slow path: take the mutex, then look at the flag again.
Once_Lock(g) ==
    /\ gpc[g] = "lock"
    /\ onceM = 0
    /\ onceM' = g
    /\ gpc' = [gpc EXCEPT ![g] = "check"]
    /\ UNCHANGED <<onceDone, instance, config, created, got>>
    /\ UNCHANGED nonSingletonVars

Once_Check(g) ==
    /\ gpc[g] = "check"
    /\ IF onceDone
       THEN onceM' = 0 /\ gpc' = [gpc EXCEPT ![g] = "return"]
       ELSE onceM' = onceM /\ gpc' = [gpc EXCEPT ![g] = "create"]
    /\ UNCHANGED <<onceDone, instance, config, created, got>>
    /\ UNCHANGED nonSingletonVars

\* instance = &JoshBankConfigManager{config: make(map[string]string)}
GetInstance_Create(g) ==
    /\ gpc[g] = "create"
    /\ created' = created + 1
    /\ instance' = created + 1
    /\ config' = EmptyMap
    /\ gpc' = [gpc EXCEPT ![g] = "load"]
    /\ UNCHANGED <<onceDone, onceM, got>>
    /\ UNCHANGED nonSingletonVars

\* One assignment of loadDefaultConfig.
LoadDefaultConfig_Step(g) ==
    /\ gpc[g] = "load"
    /\ LET n == Cardinality(DOMAIN config) + 1 IN
          /\ n <= Len(DefaultConfig)
          /\ config' = (DefaultConfig[n][1] :> DefaultConfig[n][2]) @@ config
          /\ gpc' = [gpc EXCEPT ![g] = IF n = Len(DefaultConfig) THEN "finish" ELSE "load"]
    /\ UNCHANGED <<onceDone, onceM, instance, created, got>>
    /\ UNCHANGED nonSingletonVars

\* The function given to once.Do has returned: the flag is set, the mutex
\* released.
Once_Finish(g) ==
    /\ gpc[g] = "finish"
    /\ onceDone' = TRUE
    /\ onceM' = IF onceM = g THEN 0 ELSE onceM
    /\ gpc' = [gpc EXCEPT ![g] = "return"]
    /\ UNCHANGED <<instance, config, created, got>>
    /\ UNCHANGED nonSingletonVars

\* return instance; the caller then reads the configuration through it.
GetInstance_Return(g) ==
    /\ gpc[g] = "return"
    /\ got' = [got EXCEPT ![g] = [instance |-> instance, config |-> config]]
    /\ gpc' = [gpc EXCEPT ![g] = "done"]
    /\ UNCHANGED <<onceDone, onceM, instance, config, created>>
    /\ UNCHANGED nonSingletonVars

\* The same part of the program asks for the instance again.
GetInstance_Again(g) ==
    /\ gpc[g] = "done"
    /\ gpc' = [gpc EXCEPT ![g] = "start"]
    /\ UNCHANGED <<onceDone, onceM, instance, config, created, got>>
    /\ UNCHANGED nonSingletonVars

----------------------------------------------------------------------------
(* Part 4: the command example (BankingController with undo) *)

\* Number of ExecuteCommand calls the controller is driven through.
MaxCommands == 4

CommandAccounts == {"account1", "account2"}

\* The command objects main creates; bill1..bill3 are the parts of the
\* bill-payment macro.
CommandObjects ==
    {"deposit1", "withdraw1", "transfer1", "billPayment", "bill1", "bill2", "bill3"}

\* The command objects handed to ExecuteCommand.
TopCommands == {"deposit1", "withdraw1", "transfer1", "billPayment"}

\* Command objects with a success field.
Flagged == {"withdraw1", "transfer1", "bill1", "bill2", "bill3"}

CommandOf(c) ==
    CASE c = "deposit1" ->
           [kind |-> "deposit", account |-> "account1", to |-> "account1",
            amount |-> 200, commands |-> <<>>]
      [] c = "withdraw1" ->
           [kind |-> "withdraw", account |-> "account1", to |-> "account1",
            amount |-> 150, commands |-> <<>>]
      [] c = "transfer1" ->
           [kind |-> "transfer", account |-> "account1", to |-> "account2",
            amount |-> 100, commands |-> <<>>]
      [] c = "bill1" ->
           [kind |-> "withdraw", account |-> "account1", to |-> "account1",
            amount |-> 50, commands |-> <<>>]
      [] c = "bill2" ->
           [kind |-> "withdraw", account |-> "account1", to |-> "account1",
            amount |-> 75, commands |-> <<>>]
      [] c = "bill3" ->
           [kind |-> "withdraw", account |-> "account1", to |-> "account1",
            amount |-> 25, commands |-> <<>>]
      [] c = "billPayment" ->
           [kind |-> "macro", account |-> "account1", to |-> "account1",
            amount |-> 0, commands |-> <<"bill1", "bill2", "bill3">>]

\* Opening balances of account1 and account2 (main: 1000 and 500).
OpeningBalances ==
    { [account1 |-> 1000, account2 |-> 500],
      [account1 |-> 200, account2 |-> 0],
      [account1 |-> 100, account2 |-> 0] }

\* The receivers work on st = [bal, succ, err]: the balances, the success
\* fields, and whether the last receiver call returned an error.
CommandAccount_Deposit(st, a, amount) ==
    [st EXCEPT !.bal[a] = @ + amount, !.err = FALSE]

CommandAccount_Withdraw(st, a, amount) ==
    IF st.bal[a] < amount
    THEN [st EXCEPT !.err = TRUE]
    ELSE [st EXCEPT !.bal[a] = @ - amount, !.err = FALSE]

TransferService_Transfer(st, from, to, amount) ==
    IF st.bal[from] < amount
    THEN [st EXCEPT !.err = TRUE]
    ELSE LET debited == [st EXCEPT !.bal[from] = @ - amount]
         IN  [debited EXCEPT !.bal[to] = @ + amount, !.err = FALSE]

DepositCommand_Execute(st, c) ==
    CommandAccount_Deposit(st, CommandOf(c).account, CommandOf(c).amount)

DepositCommand_Undo(st, c) ==
    CommandAccount_Withdraw(st, CommandOf(c).account, CommandOf(c).amount)

WithdrawCommand_Execute(st, c) ==
    LET r == CommandAccount_Withdraw(st, CommandOf(c).account, CommandOf(c).amount)
    IN  [r EXCEPT !.succ[c] = ~r.err]

WithdrawCommand_Undo(st, c) ==
    IF st.succ[c]
    THEN CommandAccount_Deposit(st, CommandOf(c).account, CommandOf(c).amount)
    ELSE st

TransferCommand_Execute(st, c) ==
    LET r == TransferService_Transfer(st, CommandOf(c).account, CommandOf(c).to,
                                      CommandOf(c).amount)
    IN  [r EXCEPT !.succ[c] = ~r.err]

TransferCommand_Undo(st, c) ==
    IF st.succ[c]
    THEN TransferService_Transfer(st, CommandOf(c).to, CommandOf(c).account,
                                  CommandOf(c).amount)
    ELSE st

\* Execute and Undo of a command that is not a macro.
SimpleCommand_Execute(st, c) ==
    CASE CommandOf(c).kind = "deposit" -> DepositCommand_Execute(st, c)
      [] CommandOf(c).kind = "withdraw" -> WithdrawCommand_Execute(st, c)
      [] CommandOf(c).kind = "transfer" -> TransferCommand_Execute(st, c)

SimpleCommand_Undo(st, c) ==
    CASE CommandOf(c).kind = "deposit" -> DepositCommand_Undo(st, c)
      [] CommandOf(c).kind = "withdraw" -> WithdrawCommand_Undo(st, c)
      [] CommandOf(c).kind = "transfer" -> TransferCommand_Undo(st, c)

\* for _, cmd := range m.commands { cmd.Execute() }, from position i on.
RECURSIVE MacroCommand_Execute(_, _, _)
MacroCommand_Execute(st, cs, i) ==
    IF i > Len(cs) THEN st
    ELSE MacroCommand_Execute(SimpleCommand_Execute(st, cs[i]), cs, i + 1)

\* for i := len(m.commands) - 1; i >= 0; i-- { m.commands[i].Undo() }
RECURSIVE MacroCommand_Undo(_, _, _)
MacroCommand_Undo(st, cs, i) ==
    IF i < 1 THEN st
    ELSE MacroCommand_Undo(SimpleCommand_Undo(st, cs[i]), cs, i - 1)

BankingCommand_Execute(st, c) ==
    IF CommandOf(c).kind = "macro"
    THEN MacroCommand_Execute(st, CommandOf(c).commands, 1)
    ELSE SimpleCommand_Execute(st, c)

BankingCommand_Undo(st, c) ==
    IF CommandOf(c).kind = "macro"
    THEN MacroCommand_Undo(st, CommandOf(c).commands, Len(CommandOf(c).commands))
    ELSE SimpleCommand_Undo(st, c)

CommandState == [bal |-> cmdBalance, succ |-> success, err |-> FALSE]

\* main: the accounts, the command objects and the controller are created.
Command_main(opening) ==
    /\ ~cmdStarted
    /\ cmdStarted' = TRUE
    /\ cmdBalance' = opening
    /\ openingBalance' = opening
    /\ UNCHANGED <<success, history, executed>>
    /\ UNCHANGED nonCommandVars

BankingController_ExecuteCommand(c) ==
    /\ cmdStarted
    /\ executed < MaxCommands
    /\ executed' = executed + 1
    /\ LET r == BankingCommand_Execute(CommandState, c) IN
          /\ cmdBalance' = r.bal
          /\ success' = r.succ
    /\ history' = Append(history, c)
    /\ UNCHANGED <<cmdStarted, openingBalance>>
    /\ UNCHANGED nonCommandVars

\* Undoing with an empty history prints "Nothing to undo" and changes
\* nothing.
BankingController_UndoLast ==
    /\ cmdStarted
    /\ IF history = <<>>
       THEN UNCHANGED <<cmdBalance, success, history>>
       ELSE LET r == BankingCommand_Undo(CommandState, history[Len(history)]) IN
               /\ cmdBalance' = r.bal
               /\ success' = r.succ
               /\ history' = SubSeq(history, 1, Len(history) - 1)
    /\ UNCHANGED <<cmdStarted, openingBalance, executed>>
    /\ UNCHANGED nonCommandVars

----------------------------------------------------------------------------
(* Part 5: the memento example (Account and TransactionHistory) *)

\* Number of mementos created in one run.
MaxSaves == 4

\* Largest balance the account is driven to.
MementoBalanceCap == 1500

\* Amounts deposited and withdrawn (main: 500, 200, 1000); the withdrawal is
\* large enough to be refused on a low balance.
MementoDeposits == {500}
MementoWithdrawals == {1000}

\* nil *AccountMemento
NoMemento == [balance |-> -1, timestamp |-> 0]

NoHistoryCall == [op |-> "none", ret |-> NoMemento, current |-> -1, len |-> 0]

HistoryCall(op, ret) ==
    [op |-> op, ret |-> ret, current |-> mcurrent, len |-> Len(mementos)]

\* NewAccount("ACC001", 1000.0) and NewTransactionHistory()
Memento_main ==
    /\ mBalance = -1
    /\ mBalance' = 1000
    /\ UNCHANGED <<mementos, mcurrent, saves, mLast, mPrev>>
    /\ UNCHANGED nonMementoVars

MementoAccount_Deposit(amount) ==
    /\ mBalance >= 0
    /\ mBalance + amount <= MementoBalanceCap
    /\ mBalance' = mBalance + amount
    /\ UNCHANGED <<mementos, mcurrent, saves, mLast, mPrev>>
    /\ UNCHANGED nonMementoVars

\* An overdraft returns an error and changes nothing.
MementoAccount_Withdraw(amount) ==
    /\ mBalance >= 0
    /\ mBalance' = IF mBalance < amount THEN mBalance ELSE mBalance - amount
    /\ UNCHANGED <<mementos, mcurrent, saves, mLast, mPrev>>
    /\ UNCHANGED nonMementoVars

\* The memento account.Save() returns.
MementoAccount_Save == [balance |-> mBalance, timestamp |-> saves + 1]

\* Mutant: the mementos after the current position are kept.
TransactionHistory_Save_KeepRedo(m) ==
    /\ mementos' = Append(mementos, m)
    /\ mcurrent' = mcurrent + 1

\* h.mementos = append(h.mementos[:h.current+1], m); h.current++
TransactionHistory_Save(m) ==
    /\ mementos' = Append(SubSeq(mementos, 1, mcurrent + 1), m)
    /\ mcurrent' = mcurrent + 1

\* history.Save(account.Save())
Memento_Save ==
    /\ mBalance >= 0
    /\ saves < MaxSaves
    /\ TransactionHistory_Save(MementoAccount_Save)
    /\ saves' = saves + 1
    /\ mLast' = HistoryCall("Save", MementoAccount_Save)
    /\ mPrev' = mLast
    /\ UNCHANGED mBalance
    /\ UNCHANGED nonMementoVars

\* Mutant: the memento at the current position is returned before the
\* position moves back.
TransactionHistory_Undo_ReturnCurrent ==
    IF mcurrent > 0
    THEN /\ mcurrent' = mcurrent - 1
         /\ mLast' = HistoryCall("Undo", mementos[mcurrent + 1])
    ELSE /\ mcurrent' = mcurrent
         /\ mLast' = HistoryCall("Undo", NoMemento)

\* The Go index h.current is position h.current + 1 of the sequence.
TransactionHistory_Undo ==
    IF mcurrent > 0
    THEN /\ mcurrent' = mcurrent - 1
         /\ mLast' = HistoryCall("Undo", mementos[mcurrent' + 1])
    ELSE /\ mcurrent' = mcurrent
         /\ mLast' = HistoryCall("Undo", NoMemento)

TransactionHistory_Redo ==
    IF mcurrent < Len(mementos) - 1
    THEN /\ mcurrent' = mcurrent + 1
         /\ mLast' = HistoryCall("Redo", mementos[mcurrent' + 1])
    ELSE /\ mcurrent' = mcurrent
         /\ mLast' = HistoryCall("Redo", NoMemento)

Memento_Undo ==
    /\ mBalance >= 0
    /\ TransactionHistory_Undo
    /\ mPrev' = mLast
    /\ UNCHANGED <<mBalance, mementos, saves>>
    /\ UNCHANGED nonMementoVars

Memento_Redo ==
    /\ mBalance >= 0
    /\ TransactionHistory_Redo
    /\ mPrev' = mLast
    /\ UNCHANGED <<mBalance, mementos, saves>>
    /\ UNCHANGED nonMementoVars

\* if m != nil { account.Restore(m) } with the memento Undo or Redo returned.
MementoAccount_Restore ==
    /\ mBalance >= 0
    /\ mLast.op \in {"Undo", "Redo"}
    /\ mLast.ret # NoMemento
    /\ mBalance' = mLast.ret.balance
    /\ UNCHANGED <<mementos, mcurrent, saves, mLast, mPrev>>
    /\ UNCHANGED nonMementoVars

----------------------------------------------------------------------------
(* Part 6: the prototype example (account templates and their clones) *)

\* Number of clones created in one run.
MaxClones == 2

\* Number of Customize calls in one run.
MaxCustomize == 2

\* Longest Features slice a clone is grown to.
MaxFeatures == 4

\* The zero time.Time of a template literal's CreatedAt.
ZeroTime == 0

\* main's two template literals; rates are in thousandths.
CheckingTemplateLiteral ==
    [kind |-> "checking", AccountNumber |-> "", CustomerName |-> "",
     AccountType |-> "Standard Checking", InterestRate |-> 10,
     MonthlyFee |-> 0, OverdraftLimit |-> 500,
     Metadata |-> [CreatedAt |-> ZeroTime, CreatedBy |-> "JoshBank System",
                   Version |-> "1.0", BankName |-> "JoshBank"],
     Features |-> [arr |-> 1, len |-> 3]]

SavingsTemplateLiteral ==
    [kind |-> "savings", AccountNumber |-> "", CustomerName |-> "",
     AccountType |-> "Premium Savings", InterestRate |-> 25,
     MinimumBalance |-> 1000, WithdrawalLimit |-> 6,
     Metadata |-> [CreatedAt |-> ZeroTime, CreatedBy |-> "JoshBank System",
                   Version |-> "1.0", BankName |-> "JoshBank"],
     Features |-> [arr |-> 2, len |-> 4]]

\* The backing arrays of the two Features literals: capacity = length.
TemplateArrays ==
    << [cap |-> 3, elems |-> <<"Online Banking", "Mobile App", "Debit Card">>],
       [cap |-> 4,
        elems |-> <<"High Interest", "Online Banking", "Mobile App", "ATM Access">>] >>

\* Keys passed to Create; only the first two are registered.
TemplateKeys == {"standard-checking", "premium-savings", "non-existent"}

RegisteredTemplates ==
    [k \in {"standard-checking", "premium-savings"} |->
        IF k = "standard-checking" THEN 1 ELSE 2]

\* Arguments of Customize, and values written to Features.
CustomizeArgs == {<<"CHK001", "John Doe">>, <<"CHK002", "Jane Smith">>}
FeatureValues == {"Wire Transfer"}

\* Positions of Features written by index.
FeatureIndexes == {1}

\* n empty strings: the unused tail of a backing array.
Zeroes(n) == [i \in 1..n |-> ""]

\* The strings a slice header [arr, len] denotes.
SliceElems(arrs, s) == SubSeq(arrs[s.arr].elems, 1, s.len)

AccountMetadata_Clone(m) ==
    [CreatedAt |-> m.CreatedAt, CreatedBy |-> m.CreatedBy,
     Version |-> m.Version, BankName |-> m.BankName]

\* make([]string, len(a.Features)); copy(clone.Features, a.Features): the
\* arrays with the clone's new backing array added.
CopyFeatures(arrs, s) ==
    Append(arrs, [cap |-> s.len, elems |-> SliceElems(arrs, s)])

\* Mutant: clone.Features = a.Features, the slice header is copied and the
\* backing array shared.
CheckingAccountTemplate_Clone_Shallow(a, arrs) ==
    [obj |-> [kind |-> "checking", AccountNumber |-> "", CustomerName |-> "",
              AccountType |-> a.AccountType, InterestRate |-> a.InterestRate,
              MonthlyFee |-> a.MonthlyFee, OverdraftLimit |-> a.OverdraftLimit,
              Metadata |-> AccountMetadata_Clone(a.Metadata),
              Features |-> a.Features],
     arrays |-> arrs]

\* The clone and the heap's arrays after Clone.
CheckingAccountTemplate_Clone(a, arrs) ==
    [obj |-> [kind |-> "checking", AccountNumber |-> "", CustomerName |-> "",
              AccountType |-> a.AccountType, InterestRate |-> a.InterestRate,
              MonthlyFee |-> a.MonthlyFee, OverdraftLimit |-> a.OverdraftLimit,
              Metadata |-> AccountMetadata_Clone(a.Metadata),
              Features |-> [arr |-> Len(arrs) + 1, len |-> a.Features.len]],
     arrays |-> CopyFeatures(arrs, a.Features)]

SavingsAccountTemplate_Clone(a, arrs) ==
    [obj |-> [kind |-> "savings", AccountNumber |-> "", CustomerName |-> "",
              AccountType |-> a.AccountType, InterestRate |-> a.InterestRate,
              MinimumBalance |-> a.MinimumBalance,
              WithdrawalLimit |-> a.WithdrawalLimit,
              Metadata |-> AccountMetadata_Clone(a.Metadata),
              Features |-> [arr |-> Len(arrs) + 1, len |-> a.Features.len]],
     arrays |-> CopyFeatures(arrs, a.Features)]

AccountTemplate_Clone(a, arrs) ==
    IF a.kind = "checking"
    THEN CheckingAccountTemplate_Clone(a, arrs)
    ELSE SavingsAccountTemplate_Clone(a, arrs)

\* The objects Create has returned.
Clones == {o \in DOMAIN objects : o > Len(TemplateArrays)}

\* registry.Create(key): an unknown key gives an error and no object.
AccountTemplateRegistry_Create(key) ==
    /\ Cardinality(Clones) < MaxClones
    /\ IF key \in DOMAIN registry
       THEN LET r == AccountTemplate_Clone(objects[registry[key]], arrays) IN
               /\ objects' = Append(objects, r.obj)
               /\ arrays' = r.arrays
               /\ protoActed' = Len(objects) + 1
       ELSE /\ UNCHANGED <<objects, arrays>>
            /\ protoActed' = 0
    /\ UNCHANGED <<registry, protoClock>>
    /\ UNCHANGED nonPrototypeVars

\* Customize is the same in both concrete types.
AccountTemplate_Customize(o, accountNumber, customerName) ==
    /\ o \in Clones
    /\ protoClock < MaxCustomize
    /\ protoClock' = protoClock + 1
    /\ objects' = [objects EXCEPT ![o].AccountNumber = accountNumber,
                                  ![o].CustomerName = customerName,
                                  ![o].Metadata.CreatedAt = protoClock']
    /\ protoActed' = o
    /\ UNCHANGED <<arrays, registry>>
    /\ UNCHANGED nonPrototypeVars

\* o.Features[i] = v
Features_SetIndex(o, i, v) ==
    /\ o \in Clones
    /\ i \in 1..objects[o].Features.len
    /\ arrays' = [arrays EXCEPT ![objects[o].Features.arr].elems[i] = v]
    /\ protoActed' = o
    /\ UNCHANGED <<objects, registry, protoClock>>
    /\ UNCHANGED nonPrototypeVars

\* o.Features = append(o.Features, v): in place while the backing array has
\* room, otherwise into a new array of twice the capacity.
Features_Append(o, v) ==
    /\ o \in Clones
    /\ objects[o].Features.len < MaxFeatures
    /\ LET s == objects[o].Features
           a == arrays[s.arr]
       IN  IF s.len < a.cap
           THEN /\ arrays' = [arrays EXCEPT ![s.arr].elems[s.len + 1] = v]
                /\ objects' = [objects EXCEPT ![o].Features.len = s.len + 1]
           ELSE /\ arrays' = Append(arrays,
                       [cap |-> 2 * a.cap,
                        elems |-> SliceElems(arrays, s) \o <<v>>
                                  \o Zeroes(2 * a.cap - s.len - 1)])
                /\ objects' = [objects EXCEPT
                                  ![o].Features = [arr |-> Len(arrays) + 1,
                                                   len |-> s.len + 1]]
    /\ protoActed' = o
    /\ UNCHANGED <<registry, protoClock>>
    /\ UNCHANGED nonPrototypeVars

----------------------------------------------------------------------------
(* Part 7: the builder example (CustomerProfileBuilder) *)

\* Number of setter calls in one run.
MaxSetterCalls == 3

\* Number of builders created in one run.
MaxBuilders == 2

NoMap == [k \in {} |-> ""]

\* The profile NewCustomerProfileBuilder starts from; dateOfBirth "zero" is
\* the zero time.Time.
DefaultProfile ==
    [customerID |-> "", firstName |-> "", lastName |-> "", email |-> "",
     phone |-> "", dateOfBirth |-> "zero", address |-> "", city |-> "",
     state |-> "", zipCode |-> "", accountType |-> "personal",
     kycStatus |-> "pending", riskLevel |-> "low",
     preferences |-> NoMap, metadata |-> NoMap]

\* A setter call: the builder's profile object is written in place.
SetterCall(written) ==
    /\ setterCalls < MaxSetterCalls
    /\ setterCalls' = setterCalls + 1
    /\ profiles' = [profiles EXCEPT ![bprofile] = written]
    /\ UNCHANGED <<bprofile, builtRef, builtView, buildError>>
    /\ UNCHANGED nonBuilderVars

NewCustomerProfileBuilder ==
    /\ Len(profiles) < MaxBuilders
    /\ profiles' = Append(profiles, DefaultProfile)
    /\ bprofile' = Len(profiles) + 1
    /\ UNCHANGED <<builtRef, builtView, buildError, setterCalls>>
    /\ UNCHANGED nonBuilderVars

CustomerProfileBuilder_SetCustomerID(id) ==
    SetterCall([profiles[bprofile] EXCEPT !.customerID = id])

CustomerProfileBuilder_SetPersonalInfo(firstName, lastName, email) ==
    SetterCall([profiles[bprofile] EXCEPT !.firstName = firstName,
                                          !.lastName = lastName,
                                          !.email = email])

CustomerProfileBuilder_SetPhone(phone) ==
    SetterCall([profiles[bprofile] EXCEPT !.phone = phone])

CustomerProfileBuilder_SetDateOfBirth(dob) ==
    SetterCall([profiles[bprofile] EXCEPT !.dateOfBirth = dob])

CustomerProfileBuilder_SetAddress(address, city, st, zipCode) ==
    SetterCall([profiles[bprofile] EXCEPT !.address = address, !.city = city,
                                          !.state = st, !.zipCode = zipCode])

CustomerProfileBuilder_SetAccountType(accountType) ==
    SetterCall([profiles[bprofile] EXCEPT !.accountType = accountType])

CustomerProfileBuilder_SetKYCStatus(status) ==
    SetterCall([profiles[bprofile] EXCEPT !.kycStatus = status])

CustomerProfileBuilder_SetRiskLevel(level) ==
    SetterCall([profiles[bprofile] EXCEPT !.riskLevel = level])

CustomerProfileBuilder_AddPreference(key, value) ==
    SetterCall([profiles[bprofile] EXCEPT
                   !.preferences = (key :> value) @@ profiles[bprofile].preferences])

CustomerProfileBuilder_AddMetadata(key, value) ==
    SetterCall([profiles[bprofile] EXCEPT
                   !.metadata = (key :> value) @@ profiles[bprofile].metadata])

\* Build validates the required fields and returns b.profile itself: the
\* pointer, not a copy of the struct.
CustomerProfileBuilder_Build ==
    /\ LET p == profiles[bprofile] IN
          IF p.customerID = ""
          THEN /\ buildError' = "customer ID is required"
               /\ UNCHANGED <<builtRef, builtView>>
          ELSE IF p.firstName = "" \/ p.lastName = ""
          THEN /\ buildError' = "first name and last name are required"
               /\ UNCHANGED <<builtRef, builtView>>
          ELSE IF p.email = ""
          THEN /\ buildError' = "email is required"
               /\ UNCHANGED <<builtRef, builtView>>
          ELSE /\ buildError' = "none"
               /\ builtRef' = bprofile
               /\ builtView' = p
    /\ UNCHANGED <<profiles, bprofile, setterCalls>>
    /\ UNCHANGED nonBuilderVars

----------------------------------------------------------------------------
(* Part 8: the observer example (TransactionService and its observers) *)

\* Longest observer list the service is driven to.
MaxObservers == 3

\* Above this amount a transaction is "pending_approval".
ApprovalThreshold == 10000

\* Three of main's four observers (every Update only prints).
ObserverObjects == {"notificationService", "auditService", "analyticsService"}

\* Transactions main processes: one below and one above the threshold.
ObserverTransactions == {<<"TXN001", 500>>, <<"TXN002", 15000>>}

NoEvent == [transactionID |-> "none", amount |-> 0, status |-> "none"]

\* Position of the first occurrence of o in obs, 0 if there is none.
FirstIndex(obs, o) ==
    IF \E i \in DOMAIN obs : obs[i] = o
    THEN CHOOSE i \in DOMAIN obs :
             obs[i] = o /\ \A j \in DOMAIN obs : obs[j] = o => i <= j
    ELSE 0

\* Number of positions of obs holding o.
Occurrences(obs, o) == Cardinality({i \in DOMAIN obs : obs[i] = o})

\* append(t.observers, o): nothing checks whether o is already in the list.
TransactionService_RegisterObserver(o) ==
    /\ Len(observers) < MaxObservers
    /\ observers' = Append(observers, o)
    /\ removed' = [removed EXCEPT ![o] = FALSE]
    /\ UNCHANGED <<lastEvent, delivered, lateUpdate, missedUpdate>>
    /\ UNCHANGED nonObserverVars

\* The loop returns after cutting out the first position that holds o.
TransactionService_RemoveObserver(o) ==
    /\ LET i == FirstIndex(observers, o) IN
          observers' = IF i = 0 THEN observers
                       ELSE SubSeq(observers, 1, i - 1)
                            \o SubSeq(observers, i + 1, Len(observers))
    /\ removed' = [removed EXCEPT ![o] = TRUE]
    /\ UNCHANGED <<lastEvent, delivered, lateUpdate, missedUpdate>>
    /\ UNCHANGED nonObserverVars

\* One Update call for every position of the list.
TransactionService_NotifyObservers(transactionID, amount, status) ==
    /\ lastEvent' = [transactionID |-> transactionID, amount |-> amount,
                     status |-> status]
    /\ delivered' = [o \in ObserverObjects |-> Occurrences(observers, o)]
    /\ lateUpdate' = [o \in ObserverObjects |->
                         lateUpdate[o] \/ (removed[o] /\ delivered'[o] > 0)]
    /\ missedUpdate' = [o \in ObserverObjects |->
                           missedUpdate[o]
                           \/ (FirstIndex(observers, o) # 0 /\ delivered'[o] = 0)]
    /\ UNCHANGED <<observers, removed>>
    /\ UNCHANGED nonObserverVars

TransactionService_ProcessTransaction(transactionID, amount) ==
    TransactionService_NotifyObservers(transactionID, amount,
        IF amount > ApprovalThreshold THEN "pending_approval" ELSE "completed")

----------------------------------------------------------------------------
(* Part 9: the iterator example (array and linked-list histories) *)

\* Number of transactions added to each collection.
MaxTransactions == 4

\* The transaction objects added, in this order, to both collections.
TransactionObjects == <<"TXN001", "TXN002", "TXN003", "TXN004", "TXN005", "TXN006">>

NilNode == 0

\* The last node reached from node n by following next.
RECURSIVE LastNode(_, _)
LastNode(ns, n) == IF ns[n].next = NilNode THEN n ELSE LastNode(ns, ns[n].next)

ArrayTransactionHistory_Add(t) ==
    transactions' = Append(transactions, t)

\* The new node becomes the head of an empty list, otherwise it is linked
\* after the last node.
LinkedListTransactionHistory_Add(t) ==
    LET newNode == Len(nodes) + 1
        added == Append(nodes, [transaction |-> t, next |-> NilNode])
    IN  IF llHead = NilNode
        THEN /\ llHead' = newNode
             /\ nodes' = added
        ELSE /\ llHead' = llHead
             /\ nodes' = [added EXCEPT ![LastNode(nodes, llHead)].next = newNode]

ArrayIterator_HasNext == arrIndex < Len(transactions)

LinkedListIterator_HasNext == llCurrent # NilNode

ArrayIterator_Next ==
    IF ArrayIterator_HasNext
    THEN /\ arrResult' = transactions[arrIndex + 1]
         /\ arrIndex' = arrIndex + 1
    ELSE /\ arrResult' = "nil"
         /\ arrIndex' = arrIndex

LinkedListIterator_Next ==
    IF LinkedListIterator_HasNext
    THEN /\ llResult' = nodes[llCurrent].transaction
         /\ llCurrent' = nodes[llCurrent].next
    ELSE /\ llResult' = "nil"
         /\ llCurrent' = llCurrent

\* The same transaction is added to both collections.
Collections_Add ==
    /\ Len(transactions) < MaxTransactions
    /\ ArrayTransactionHistory_Add(TransactionObjects[Len(transactions) + 1])
    /\ LinkedListTransactionHistory_Add(TransactionObjects[Len(transactions) + 1])
    /\ UNCHANGED <<iterCreated, arrIndex, llCurrent, llIterHead, arrResult, llResult>>
    /\ UNCHANGED nonIteratorVars

\* CreateIterator on both collections: &ArrayIterator{history: h, index: 0}
\* and &LinkedListIterator{current: h.head, head: h.head}.
Collections_CreateIterator ==
    /\ iterCreated' = TRUE
    /\ arrIndex' = 0
    /\ llCurrent' = llHead
    /\ llIterHead' = llHead
    /\ arrResult' = "none"
    /\ llResult' = "none"
    /\ UNCHANGED <<transactions, nodes, llHead>>
    /\ UNCHANGED nonIteratorVars

Iterators_HasNext ==
    /\ iterCreated
    /\ arrResult' = IF ArrayIterator_HasNext THEN "true" ELSE "false"
    /\ llResult' = IF LinkedListIterator_HasNext THEN "true" ELSE "false"
    /\ UNCHANGED <<transactions, nodes, llHead, iterCreated, arrIndex, llCurrent, llIterHead>>
    /\ UNCHANGED nonIteratorVars

Iterators_Next ==
    /\ iterCreated
    /\ ArrayIterator_Next
    /\ LinkedListIterator_Next
    /\ UNCHANGED <<transactions, nodes, llHead, iterCreated, llIterHead>>
    /\ UNCHANGED nonIteratorVars

\* i.index = 0 and i.current = i.head
Iterators_Reset ==
    /\ iterCreated
    /\ arrIndex' = 0
    /\ llCurrent' = llIterHead
    /\ arrResult' = "none"
    /\ llResult' = "none"
    /\ UNCHANGED <<transactions, nodes, llHead, iterCreated, llIterHead>>
    /\ UNCHANGED nonIteratorVars

----------------------------------------------------------------------------
(* Part 10: the caching proxy of the proxy example *)

\* Number of GetRate calls made on one CachingProxy.
MaxRateCalls == 3

\* Currency arguments: the three of main, and two with a hyphen inside, so
\* that different pairs are formatted into the same cache key.
Currencies == {"USD", "EUR", "GBP", "USD-EUR", "EUR-GBP"}

NoRate == -1

NoRatePair == <<"", "">>

\* Rates in hundredths: 1.0, 0.85 and 0.75.
RealExchangeRateService_GetRate(fromCurrency, toCurrency) ==
    IF fromCurrency = "USD" /\ toCurrency = "EUR" THEN 85
    ELSE IF fromCurrency = "USD" /\ toCurrency = "GBP" THEN 75
    ELSE 100

\* fmt.Sprintf("%s-%s", fromCurrency, toCurrency)
CacheKey_FromOnly(fromCurrency, toCurrency) ==
    fromCurrency

CacheKey(fromCurrency, toCurrency) ==
    fromCurrency \o "-" \o toCurrency

\* The keys the proxy can be asked to cache.
CacheKeys == {CacheKey(f, t) : f \in Currencies, t \in Currencies}

CachingProxy_GetRate(fromCurrency, toCurrency) ==
    LET key == CacheKey(fromCurrency, toCurrency)
    IN  /\ rateCalls < MaxRateCalls
        /\ rateCalls' = rateCalls + 1
        /\ lastRequest' = <<fromCurrency, toCurrency>>
        /\ realRate' = RealExchangeRateService_GetRate(fromCurrency, toCurrency)
        /\ IF cache[key] # NoRate
           THEN /\ proxyRate' = cache[key]
                /\ cacheHit' = TRUE
                /\ cache' = cache
           ELSE /\ proxyRate' = RealExchangeRateService_GetRate(fromCurrency, toCurrency)
                /\ cacheHit' = FALSE
                /\ cache' = [cache EXCEPT ![key] =
                                RealExchangeRateService_GetRate(fromCurrency, toCurrency)]
        /\ UNCHANGED nonProxyVars

----------------------------------------------------------------------------
(* Part 11: concurrent GetConfig, SetConfig and GetAllConfig on the singleton *)

\* Number of calls the callers start altogether.
MaxConfigCalls == 4

\* Keys and values the callers use (main sets transaction_limit to 20000).
ConfigKeys == {"transaction_limit", "bank_name"}

ConfigValues == {"20000"}

NoConfigCall == [op |-> "none", key |-> "", value |-> ""]

ConfigCalls ==
    {[op |-> "GetConfig", key |-> k, value |-> ""] : k \in ConfigKeys}
    \cup {[op |-> "SetConfig", key |-> k, value |-> v] : k \in ConfigKeys, v \in ConfigValues}
    \cup {[op |-> "GetAllConfig", key |-> "", value |-> ""]}

\* sync.RWMutex: RLock waits while a writer holds the lock, Lock waits while
\* a writer or any reader holds it.
RWMutex_CanRLock == rwWriter = 0

RWMutex_CanLock_IgnoringReaders == rwWriter = 0

RWMutex_CanLock == rwWriter = 0 /\ rwReaders = {}

Max(a, b) == IF a >= b THEN a ELSE b

\* A caller starts one of the three methods on the instance.
Config_Call(g, call) ==
    /\ cpc[g] = "idle"
    /\ configCalls < MaxConfigCalls
    /\ configCalls' = configCalls + 1
    /\ creq' = [creq EXCEPT ![g] = call]
    /\ cpc' = [cpc EXCEPT ![g] = IF call.op = "SetConfig" THEN "lock" ELSE "rlock"]
    /\ cfloor' = [cfloor EXCEPT ![g] =
                     IF call.op = "GetConfig" THEN returnedSets[call.key] ELSE 0]
    /\ UNCHANGED <<cfgMap, rwWriter, rwReaders, cret, cpos, writeLog, returnedSets, staleRead>>
    /\ UNCHANGED nonConfigVars

\* c.mu.RLock() of GetConfig and GetAllConfig
RWMutex_RLock(g) ==
    /\ cpc[g] = "rlock"
    /\ RWMutex_CanRLock
    /\ rwReaders' = rwReaders \cup {g}
    /\ cpc' = [cpc EXCEPT ![g] = "read"]
    /\ UNCHANGED <<cfgMap, rwWriter, creq, cfloor, cret, cpos, writeLog, returnedSets, staleRead, configCalls>>
    /\ UNCHANGED nonConfigVars

\* The read of the map begins: c.config[key], or the range loop.
Map_BeginRead(g) ==
    /\ cpc[g] = "read"
    /\ cpc' = [cpc EXCEPT ![g] = "reading"]
    /\ UNCHANGED <<cfgMap, rwWriter, rwReaders, creq, cfloor, cret, cpos, writeLog, returnedSets, staleRead, configCalls>>
    /\ UNCHANGED nonConfigVars

\* The read ends: GetConfig has the value of its key, GetAllConfig its copy.
Map_EndRead(g) ==
    /\ cpc[g] = "reading"
    /\ cpc' = [cpc EXCEPT ![g] = "runlock"]
    /\ cret' = [cret EXCEPT ![g] =
                   IF creq[g].op = "GetConfig"
                   THEN (creq[g].key :> cfgMap[creq[g].key])
                   ELSE cfgMap]
    /\ staleRead' = [staleRead EXCEPT ![g] =
                        /\ creq[g].op = "GetConfig"
                        /\ \A i \in cfloor[g]..Len(writeLog[creq[g].key]) :
                               writeLog[creq[g].key][i] # cfgMap[creq[g].key]]
    /\ UNCHANGED <<cfgMap, rwWriter, rwReaders, creq, cfloor, cpos, writeLog, returnedSets, configCalls>>
    /\ UNCHANGED nonConfigVars

\* The deferred c.mu.RUnlock(), and the return: the call is over.
RWMutex_RUnlock(g) ==
    /\ cpc[g] = "runlock"
    /\ rwReaders' = rwReaders \ {g}
    /\ cpc' = [cpc EXCEPT ![g] = "idle"]
    /\ creq' = [creq EXCEPT ![g] = NoConfigCall]
    /\ cfloor' = [cfloor EXCEPT ![g] = 0]
    /\ cret' = [cret EXCEPT ![g] = EmptyMap]
    /\ UNCHANGED <<cfgMap, rwWriter, cpos, writeLog, returnedSets, staleRead, configCalls>>
    /\ UNCHANGED nonConfigVars

\* c.mu.Lock() of SetConfig
RWMutex_Lock(g) ==
    /\ cpc[g] = "lock"
    /\ RWMutex_CanLock
    /\ rwWriter' = g
    /\ cpc' = [cpc EXCEPT ![g] = "write"]
    /\ UNCHANGED <<cfgMap, rwReaders, creq, cfloor, cret, cpos, writeLog, returnedSets, staleRead, configCalls>>
    /\ UNCHANGED nonConfigVars

\* The assignment c.config[key] = value begins.
Map_BeginWrite(g) ==
    /\ cpc[g] = "write"
    /\ cpc' = [cpc EXCEPT ![g] = "writing"]
    /\ UNCHANGED <<cfgMap, rwWriter, rwReaders, creq, cfloor, cret, cpos, writeLog, returnedSets, staleRead, configCalls>>
    /\ UNCHANGED nonConfigVars

\* The assignment is done.
Map_EndWrite(g) ==
    /\ cpc[g] = "writing"
    /\ cpc' = [cpc EXCEPT ![g] = "unlock"]
    /\ cfgMap' = [cfgMap EXCEPT ![creq[g].key] = creq[g].value]
    /\ writeLog' = [writeLog EXCEPT ![creq[g].key] = Append(@, creq[g].value)]
    /\ cpos' = [cpos EXCEPT ![g] = Len(writeLog[creq[g].key]) + 1]
    /\ UNCHANGED <<rwWriter, rwReaders, creq, cfloor, cret, returnedSets, staleRead, configCalls>>
    /\ UNCHANGED nonConfigVars

\* The deferred c.mu.Unlock(), and the return: the call is over.
RWMutex_Unlock(g) ==
    /\ cpc[g] = "unlock"
    /\ rwWriter' = 0
    /\ cpc' = [cpc EXCEPT ![g] = "idle"]
    /\ returnedSets' = [returnedSets EXCEPT ![creq[g].key] = Max(@, cpos[g])]
    /\ creq' = [creq EXCEPT ![g] = NoConfigCall]
    /\ cpos' = [cpos EXCEPT ![g] = 0]
    /\ UNCHANGED <<cfgMap, rwReaders, cfloor, cret, writeLog, staleRead, configCalls>>
    /\ UNCHANGED nonConfigVars

----------------------------------------------------------------------------
(* Specifications *)

InitCalls ==
    /\ pc = [t \in Goroutines |-> "idle"]
    /\ head = [t \in Goroutines |-> Nil]
    /\ request = [t \in Goroutines |-> NoRequest]
    /\ cur = [t \in Goroutines |-> Nil]
    /\ consulted = [t \in Goroutines |-> <<>>]
    /\ claimed = [t \in Goroutines |-> <<>>]
    /\ result = [t \in Goroutines |-> "none"]

\* Freshly constructed handlers: every next is nil.
InitHandlers ==
    /\ name = [h \in Handlers |-> HandlerName(h)]
    /\ next = [h \in Handlers |-> Nil]
    /\ first = Nil
    /\ built = [done |-> FALSE, hs |-> <<>>]
    /\ buildErr = "none"

\* No account has been created yet.
InitAccount ==
    /\ currentState = "none"
    /\ balance = 0
    /\ message = "none"
    /\ lastCall = NoCall
    /\ manual = FALSE

\* Package variables at program start: instance is nil, once is unused.
InitSingleton ==
    /\ onceDone = FALSE
    /\ onceM = 0
    /\ instance = 0
    /\ config = EmptyMap
    /\ created = 0
    /\ gpc = [g \in Callers |-> "start"]
    /\ got = [g \in Callers |-> NothingReturned]

\* Before main has created the accounts: no command has run.
InitCommand ==
    /\ cmdStarted = FALSE
    /\ cmdBalance = [account1 |-> 0, account2 |-> 0]
    /\ openingBalance = [account1 |-> 0, account2 |-> 0]
    /\ success = [c \in Flagged |-> FALSE]
    /\ history = <<>>
    /\ executed = 0

\* Before main has created the account and the history.
InitMemento ==
    /\ mBalance = -1
    /\ mementos = <<>>
    /\ mcurrent = -1
    /\ saves = 0
    /\ mLast = NoHistoryCall
    /\ mPrev = NoHistoryCall

\* After main has built and registered the two templates.
InitPrototype ==
    /\ objects = <<CheckingTemplateLiteral, SavingsTemplateLiteral>>
    /\ arrays = TemplateArrays
    /\ registry = RegisteredTemplates
    /\ protoClock = 0
    /\ protoActed = 0

\* After the first NewCustomerProfileBuilder().
InitBuilder ==
    /\ profiles = <<DefaultProfile>>
    /\ bprofile = 1
    /\ builtRef = 0
    /\ builtView = DefaultProfile
    /\ buildError = "none"
    /\ setterCalls = 0

\* NewTransactionService(): no observer is registered.
InitObserver ==
    /\ observers = <<>>
    /\ lastEvent = NoEvent
    /\ delivered = [o \in ObserverObjects |-> 0]
    /\ removed = [o \in ObserverObjects |-> FALSE]
    /\ lateUpdate = [o \in ObserverObjects |-> FALSE]
    /\ missedUpdate = [o \in ObserverObjects |-> FALSE]

\* Two empty collections, no iterator yet.
InitIterator ==
    /\ transactions = <<>>
    /\ nodes = <<>>
    /\ llHead = NilNode
    /\ iterCreated = FALSE
    /\ arrIndex = 0
    /\ llCurrent = NilNode
    /\ llIterHead = NilNode
    /\ arrResult = "none"
    /\ llResult = "none"

\* NewCachingProxy: an empty cache.
InitProxy ==
    /\ cache = [k \in CacheKeys |-> NoRate]
    /\ rateCalls = 0
    /\ lastRequest = NoRatePair
    /\ proxyRate = NoRate
    /\ realRate = NoRate
    /\ cacheHit = FALSE

\* After GetInstance has returned: the default configuration is loaded, the
\* mutex is free and no call is running.
InitConfig ==
    /\ cfgMap = Loaded(Len(DefaultConfig))
    /\ rwWriter = 0
    /\ rwReaders = {}
    /\ cpc = [g \in Callers |-> "idle"]
    /\ creq = [g \in Callers |-> NoConfigCall]
    /\ cfloor = [g \in Callers |-> 0]
    /\ cret = [g \in Callers |-> EmptyMap]
    /\ cpos = [g \in Callers |-> 0]
    /\ writeLog = [k \in ConfigKeys |-> <<Loaded(Len(DefaultConfig))[k]>>]
    /\ returnedSets = [k \in ConfigKeys |-> 1]
    /\ staleRead = [g \in Callers |-> FALSE]
    /\ configCalls = 0

Init ==
    /\ InitHandlers
    /\ InitCalls
    /\ InitAccount
    /\ InitSingleton
    /\ InitCommand
    /\ InitMemento
    /\ InitPrototype
    /\ InitBuilder
    /\ InitObserver
    /\ InitIterator
    /\ InitProxy
    /\ InitConfig

\* Spec: one goroutine; main's handlers may be relinked in any way between
\* calls and Handle may be called on any of them.
Next ==
    \/ \E h \in MainHandlers, g \in MainHandlers \cup {Nil} : BaseHandler_SetNext(h, g)
    \/ \E t \in MainGoroutine, h \in MainHandlers, a \in Amounts : Handle_Call(t, h, a)
    \/ \E t \in MainGoroutine : LowAmountHandler_Handle(t)
    \/ \E t \in MainGoroutine : MediumAmountHandler_Handle(t)
    \/ \E t \in MainGoroutine : ManagerHandler_Handle(t)
    \/ \E t \in MainGoroutine : DirectorHandler_Handle(t)
    \/ \E t \in MainGoroutine : Handle_Return(t)

Spec == Init /\ [][Next]_vars

\* SpecPipeline: the chain is linked once from a handler sequence, then
\* several goroutines send requests to its first handler.
NextPipeline ==
    \/ \E hs \in BuildInputs : BuildChain(hs)
    \/ \E t \in Goroutines, a \in Amounts :
          built.done /\ first # Nil /\ Handle_Call(t, first, a)
    \/ \E t \in Goroutines : LowAmountHandler_Handle(t)
    \/ \E t \in Goroutines : MediumAmountHandler_Handle(t)
    \/ \E t \in Goroutines : ManagerHandler_Handle(t)
    \/ \E t \in Goroutines : DirectorHandler_Handle(t)
    \/ \E t \in Goroutines : Handle_Return(t)

SpecPipeline == Init /\ [][NextPipeline]_vars

\* SpecAccount: one account, created once, then any sequence of its public
\* operations.
NextAccount ==
    \/ \E b \in InitialBalances : NewAccount(b)
    \/ \E a \in OpAmounts : Account_Deposit(a)
    \/ \E a \in OpAmounts : Account_Withdraw(a)
    \/ Account_Close
    \/ \E st \in AccountStates : Account_SetState(st)
    \/ \E b \in SetBalances : Account_SetBalance(b)

SpecAccount == Init /\ [][NextAccount]_vars

\* SpecSingleton: several goroutines call GetInstance, in any interleaving.
NextSingleton ==
    \/ \E g \in Callers : GetInstance_Enter(g)
    \/ \E g \in Callers : Once_Lock(g)
    \/ \E g \in Callers : Once_Check(g)
    \/ \E g \in Callers : GetInstance_Create(g)
    \/ \E g \in Callers : LoadDefaultConfig_Step(g)
    \/ \E g \in Callers : Once_Finish(g)
    \/ \E g \in Callers : GetInstance_Return(g)
    \/ \E g \in Callers : GetInstance_Again(g)

SpecSingleton == Init /\ [][NextSingleton]_vars

\* SpecCommand: the controller executes and undoes commands in any order.
NextCommand ==
    \/ \E opening \in OpeningBalances : Command_main(opening)
    \/ \E c \in TopCommands : BankingController_ExecuteCommand(c)
    \/ BankingController_UndoLast

SpecCommand == Init /\ [][NextCommand]_vars

\* SpecMemento: transactions, saves, undo, redo and restore in any order.
NextMemento ==
    \/ Memento_main
    \/ \E a \in MementoDeposits : MementoAccount_Deposit(a)
    \/ \E a \in MementoWithdrawals : MementoAccount_Withdraw(a)
    \/ Memento_Save
    \/ Memento_Undo
    \/ Memento_Redo
    \/ MementoAccount_Restore

SpecMemento == Init /\ [][NextMemento]_vars

\* SpecPrototype: clones are created from the registry and then changed.
NextPrototype ==
    \/ \E key \in TemplateKeys : AccountTemplateRegistry_Create(key)
    \/ \E o \in DOMAIN objects, args \in CustomizeArgs :
          AccountTemplate_Customize(o, args[1], args[2])
    \/ \E o \in DOMAIN objects, i \in FeatureIndexes, v \in FeatureValues :
          Features_SetIndex(o, i, v)
    \/ \E o \in DOMAIN objects, v \in FeatureValues : Features_Append(o, v)

SpecPrototype == Init /\ [][NextPrototype]_vars

\* SpecBuilder: setters and Build on a builder, in any order; the arguments
\* are main's.
NextBuilder ==
    \/ NewCustomerProfileBuilder
    \/ CustomerProfileBuilder_SetCustomerID("CUST001")
    \/ CustomerProfileBuilder_SetPersonalInfo("John", "Doe", "john.doe@example.com")
    \/ \E phone \in {"555-0100", "555-0200"} : CustomerProfileBuilder_SetPhone(phone)
    \/ CustomerProfileBuilder_SetDateOfBirth("1985-05-15")
    \/ CustomerProfileBuilder_SetAddress("123 Main St", "New York", "NY", "10001")
    \/ CustomerProfileBuilder_SetAccountType("premium")
    \/ CustomerProfileBuilder_SetKYCStatus("verified")
    \/ CustomerProfileBuilder_SetRiskLevel("medium")
    \/ CustomerProfileBuilder_AddPreference("language", "en")
    \/ CustomerProfileBuilder_AddMetadata("referral_source", "online")
    \/ CustomerProfileBuilder_Build

SpecBuilder == Init /\ [][NextBuilder]_vars

\* SpecObserver: observers are registered and removed between transactions.
NextObserver ==
    \/ \E o \in ObserverObjects : TransactionService_RegisterObserver(o)
    \/ \E o \in ObserverObjects : TransactionService_RemoveObserver(o)
    \/ \E tx \in ObserverTransactions :
          TransactionService_ProcessTransaction(tx[1], tx[2])

SpecObserver == Init /\ [][NextObserver]_vars

\* SpecIterator: the same calls are made on an array history and on a
\* linked-list history, and on their iterators.
NextIterator ==
    \/ Collections_Add
    \/ Collections_CreateIterator
    \/ Iterators_HasNext
    \/ Iterators_Next
    \/ Iterators_Reset

SpecIterator == Init /\ [][NextIterator]_vars

\* SpecProxy: GetRate calls on one CachingProxy.
NextProxy ==
    \E f \in Currencies, t \in Currencies : CachingProxy_GetRate(f, t)

SpecProxy == Init /\ [][NextProxy]_vars

\* SpecConfig: goroutines calling GetConfig, SetConfig and GetAllConfig on
\* the instance at the same time.
NextConfig ==
    \E g \in Callers :
        \/ \E call \in ConfigCalls : Config_Call(g, call)
        \/ RWMutex_RLock(g)
        \/ Map_BeginRead(g)
        \/ Map_EndRead(g)
        \/ RWMutex_RUnlock(g)
        \/ RWMutex_Lock(g)
        \/ Map_BeginWrite(g)
        \/ Map_EndWrite(g)
        \/ RWMutex_Unlock(g)

SpecConfig == Init /\ [][NextConfig]_vars

----------------------------------------------------------------------------
(* The chain as a data structure, and the call run on its own *)

Last(sq) == sq[Len(sq)]

SeqRange(sq) == {sq[i] : i \in DOMAIN sq}

\* The handlers met by following next from h, in order, up to nil or to the
\* first handler met a second time.
RECURSIVE FollowNext(_, _, _)
FollowNext(nxt, h, acc) ==
    IF h = Nil \/ h \in SeqRange(acc) THEN acc
    ELSE FollowNext(nxt, nxt[h], Append(acc, h))

ChainOrder(nxt, h) == FollowNext(nxt, h, <<>>)

\* Following next from h ends at nil.
Acyclic(nxt, h) ==
    LET c == ChainOrder(nxt, h) IN c = <<>> \/ nxt[Last(c)] = Nil

\* h.Handle(request) run to completion with nothing else running: the
\* returned bool and the handler that approved, or the stack overflow.
RECURSIVE HandleAlone(_, _, _, _)
HandleAlone(nxt, h, amount, depth) ==
    IF Accepts(h, amount) THEN [result |-> "true", by |-> <<h>>]
    ELSE IF Kind(h) = "DirectorHandler" \/ nxt[h] = Nil
         THEN [result |-> "false", by |-> <<>>]
         ELSE IF depth >= MaxDepth THEN [result |-> "overflow", by |-> <<>>]
              ELSE HandleAlone(nxt, nxt[h], amount, depth + 1)

\* The links main makes: lowAmount -> mediumAmount -> manager -> director.
IsReferenceChain ==
    /\ next["lowAmount"] = "mediumAmount"
    /\ next["mediumAmount"] = "manager"
    /\ next["manager"] = "director"
    /\ next["director"] = Nil

\* A finished call on the reference chain, sent to its first handler.
ReferenceCallDone(t) ==
    /\ pc[t] \in {"returned", "overflow"}
    /\ IsReferenceChain
    /\ head[t] = "lowAmount"
    /\ request[t].Amount >= 0

\* The bands as half-open intervals [low, high).
HalfOpenBandHandler(amount) ==
    IF amount < LowLimit THEN "lowAmount"
    ELSE IF amount < MediumLimit THEN "mediumAmount"
    ELSE IF amount < ManagerLimit THEN "manager"
    ELSE "director"

\* The bands with the upper end included: (low, high].
ClosedHighBandHandler(amount) ==
    IF amount <= LowLimit THEN "lowAmount"
    ELSE IF amount <= MediumLimit THEN "mediumAmount"
    ELSE IF amount <= ManagerLimit THEN "manager"
    ELSE "director"

----------------------------------------------------------------------------
(* Claims *)

\* C1 as stated: on the reference chain every non-negative amount is approved
\* by the handler whose half-open band [0,1000), [1000,10000), [10000,50000),
\* [50000,inf) contains it, so 1000 goes to the supervisor, 10000 to the
\* manager and 50000 to the director.
C1_HalfOpenBands ==
    \A t \in Goroutines :
        ReferenceCallDone(t) =>
            /\ result[t] = "true"
            /\ claimed[t] = <<HalfOpenBandHandler(request[t].Amount)>>

\* C1 amended: on the reference chain every non-negative amount is approved
\* by the handler whose band (..,1000], (1000,10000], (10000,50000],
\* (50000,inf) contains it: the upper end of a band is included, so 1000 is
\* approved by the first handler, 10000 by the second, 50000 by the third.
C1_ClosedHighBands ==
    \A t \in Goroutines :
        ReferenceCallDone(t) =>
            /\ result[t] = "true"
            /\ claimed[t] = <<ClosedHighBandHandler(request[t].Amount)>>

C1_Witness ==
    \E t \in Goroutines :
        /\ ReferenceCallDone(t)
        /\ request[t].Amount = MediumLimit
        /\ claimed[t] = <<"mediumAmount">>
        /\ consulted[t] = <<"lowAmount", "mediumAmount">>

\* C2: during one call at most one handler approves, and the approving
\* handler is the last one consulted: nothing after it in the chain runs.
C2_AtMostOneClaims ==
    \A t \in Goroutines :
        /\ Len(claimed[t]) <= 1
        /\ Len(claimed[t]) = 1 =>
              /\ pc[t] = "returned"
              /\ result[t] = "true"
              /\ consulted[t] # <<>>
              /\ Last(consulted[t]) = claimed[t][1]
              /\ \A i \in 1..(Len(consulted[t]) - 1) :
                    ~Accepts(consulted[t][i], request[t].Amount)

C2_Witness ==
    \E t \in Goroutines :
        /\ pc[t] = "returned"
        /\ Len(claimed[t]) = 1
        /\ Len(consulted[t]) >= 2
        /\ next[claimed[t][1]] # Nil

\* Every call that has started has exactly one outcome once it is over, has
\* consulted no more handlers than its chain holds, and can take its next
\* step while it runs.
CallBounded(t) ==
    /\ pc[t] # "overflow"
    /\ Len(consulted[t]) <= Len(ChainOrder(next, head[t]))
    /\ pc[t] = "running" => cur[t] # Nil
    /\ pc[t] = "returned" =>
          /\ result[t] \in {"true", "false"}
          /\ result[t] = "true" <=> claimed[t] # <<>>

\* C3 as stated: on any chain SetNext can build, a call consults at most as
\* many handlers as the chain contains and ends in exactly one of Approved
\* and Unhandled.
C3_AnyChainBounded ==
    \A t \in Goroutines : pc[t] # "idle" => CallBounded(t)

\* C3 amended: on any chain SetNext can build in which no handler is
\* reachable from itself, a call consults at most as many handlers as the
\* chain contains and ends in exactly one of Approved and Unhandled.
C3_AcyclicChainBounded ==
    \A t \in Goroutines :
        (pc[t] # "idle" /\ Acyclic(next, head[t])) => CallBounded(t)

C3_Witness ==
    \E t \in Goroutines :
        /\ pc[t] = "returned"
        /\ Acyclic(next, head[t])
        /\ Len(ChainOrder(next, head[t])) >= 3
        /\ Len(consulted[t]) = Len(ChainOrder(next, head[t]))
        /\ result[t] = "false"

\* C4: on the reference chain no call with a non-negative amount ends
\* Unhandled.
C4_ReferenceNeverUnhandled ==
    \A t \in Goroutines :
        ReferenceCallDone(t) => pc[t] = "returned" /\ result[t] = "true"

C4_Witness ==
    \E t \in Goroutines :
        /\ ReferenceCallDone(t)
        /\ request[t].Amount = ManagerLimit
        /\ result[t] = "true"
        /\ Len(consulted[t]) = 3

NoneAccepts(t) ==
    \A h \in SeqRange(ChainOrder(next, head[t])) : ~Accepts(h, request[t].Amount)

\* C5: on a chain with a gap, a call whose amount lies in no handler's band
\* returns false (Unhandled) in the normal way: no approval, no failure.
C5_GapIsUnhandled ==
    \A t \in Goroutines :
        (pc[t] \in {"returned", "overflow"} /\ Acyclic(next, head[t]) /\ NoneAccepts(t)) =>
            /\ pc[t] = "returned"
            /\ result[t] = "false"
            /\ claimed[t] = <<>>

C5_Witness ==
    \E t \in Goroutines :
        /\ pc[t] = "returned"
        /\ head[t] = "lowAmount"
        /\ next["lowAmount"] = "manager"
        /\ next["manager"] = "director"
        /\ next["director"] = Nil
        /\ request[t].Amount = 5000
        /\ result[t] = "false"
        /\ consulted[t] = <<"lowAmount", "manager", "director">>

BuiltFromEmpty == built.done /\ built.hs = <<>>

C7_Deterministic ==
    \A t, u \in Goroutines :
        ( /\ pc[t] = "returned"
          /\ pc[u] = "returned"
          /\ head[t] = head[u]
          /\ request[t] = request[u] ) =>
            /\ result[t] = result[u]
            /\ claimed[t] = claimed[u]
            /\ consulted[t] = consulted[u]

C7_Witness ==
    \E t, u \in Goroutines :
        /\ t # u
        /\ pc[t] = "returned"
        /\ pc[u] = "returned"
        /\ request[t] = request[u]
        /\ result[t] = "true"
        /\ result[u] = "true"
        /\ Len(consulted[t]) >= 3

\* C8: with several goroutines calling Handle on one built chain, every
\* call returns what it returns when run alone, and the links stay as the
\* build left them.
C8_ConcurrentCallsSafe ==
    /\ built.done => next = LinkAll([h \in Handlers |-> Nil], built.hs, 1)
    /\ \A t \in Goroutines :
          pc[t] \in {"returned", "overflow"} =>
              LET alone == HandleAlone(next, head[t], request[t].Amount, 1) IN
                  /\ (pc[t] = "overflow") = (alone.result = "overflow")
                  /\ pc[t] = "returned" =>
                        result[t] = alone.result /\ claimed[t] = alone.by

C8_Witness ==
    \E t, u \in Goroutines :
        /\ t # u
        /\ pc[t] = "running"
        /\ pc[u] = "running"
        /\ Len(consulted[t]) >= 2
        /\ Len(consulted[u]) >= 1
        /\ request[t] # request[u]

\* C9 as stated: a handler that does not approve passes the request to its
\* successor whenever one is linked, so false (Unhandled) is returned only
\* by a handler that has no successor.
C9_UnhandledOnlyAtChainEnd ==
    \A t \in Goroutines :
        (pc[t] = "returned" /\ result[t] = "false") =>
            next[Last(consulted[t])] = Nil

\* The handlers of the chain whose band contains the amount, by position.
AcceptingPositions(t) ==
    LET c == ChainOrder(next, head[t]) IN
        {i \in DOMAIN c : Accepts(c[i], request[t].Amount)}

\* C10 as stated: when the bands of two or more handlers of the chain
\* contain the amount, the request is approved by the earliest of them in
\* chain order.
C10_EarliestWins ==
    \A t \in Goroutines :
        (pc[t] = "returned" /\ Cardinality(AcceptingPositions(t)) >= 2) =>
            LET c == ChainOrder(next, head[t])
                i == CHOOSE i \in AcceptingPositions(t) :
                        \A j \in AcceptingPositions(t) : i <= j
            IN  result[t] = "true" /\ claimed[t] = <<c[i]>>

\* C11 as stated: a negative amount sent to the first handler of the
\* reference chain is approved by nobody; the call returns false.
C11_NegativeUnhandled ==
    \A t \in Goroutines :
        /\ pc[t] = "returned"
        /\ IsReferenceChain
        /\ head[t] = "lowAmount"
        /\ request[t].Amount < 0
        => result[t] = "false" /\ claimed[t] = <<>>

\* C11 amended: LowAmountHandler tests only Amount <= 1000, so a negative
\* amount sent to the first handler of the reference chain is approved by
\* that handler, and no other handler is consulted.
C11_NegativeApprovedByLow ==
    \A t \in Goroutines :
        /\ pc[t] = "returned"
        /\ IsReferenceChain
        /\ head[t] = "lowAmount"
        /\ request[t].Amount < 0
        => /\ result[t] = "true"
           /\ claimed[t] = <<"lowAmount">>
           /\ consulted[t] = <<"lowAmount">>

C11_Witness ==
    \E t \in Goroutines :
        /\ pc[t] = "returned"
        /\ IsReferenceChain
        /\ head[t] = "lowAmount"
        /\ request[t].Amount = -1
        /\ result[t] = "true"

\* C12: no step of a Handle call changes the request (ID, CustomerID, Amount,
\* Type, Description, Priority), any handler's name or any handler's next
\* link, and the request the call returns with is the request it was given.
\* (The bands are literals in the Handle methods, not state.)
C12_EvaluateChangesNothing ==
    [][\A t \in Goroutines :
          /\ pc[t] = "running"
             => /\ request'[t] = request[t]
                /\ name' = name
                /\ next' = next
          /\ pc'[t] = "returned"
             => request'[t] = TransactionRequest(request'[t].Amount)]_vars

C12_Witness ==
    \E t \in Goroutines :
        /\ pc[t] = "returned"
        /\ Len(consulted[t]) = 4
        /\ request[t] = TransactionRequest(100000)
        /\ name = [h \in Handlers |-> HandlerName(h)]
        /\ IsReferenceChain

\* The four sample amounts of the claim.
SampleAmounts == {500, 5000, 25000, 100000}

\* The approver names as the specification gives them.
StatedApproverName(amount) ==
    CASE amount = 500 -> "Auto-Approval"
      [] amount = 5000 -> "Supervisor"
      [] amount = 25000 -> "Manager"
      [] amount = 100000 -> "Director"

\* The approver names as main constructs the handlers.
MainApproverName(amount) ==
    CASE amount = 500 -> "Auto-Approval System"
      [] amount = 5000 -> "Supervisor"
      [] amount = 25000 -> "Manager"
      [] amount = 100000 -> "Director"

\* A returned call on the reference chain with one of the sample amounts.
SampleCallDone(t) ==
    /\ pc[t] = "returned"
    /\ IsReferenceChain
    /\ head[t] = "lowAmount"
    /\ request[t].Amount \in SampleAmounts

\* C13 as stated: on the reference chain 500, 5000, 25000 and 100000 are
\* approved by the handlers named "Auto-Approval", "Supervisor", "Manager"
\* and "Director".
C13_StatedNames ==
    \A t \in Goroutines :
        SampleCallDone(t)
        => /\ result[t] = "true"
           /\ Len(claimed[t]) = 1
           /\ name[claimed[t][1]] = StatedApproverName(request[t].Amount)

\* C13 amended: the first handler is named "Auto-Approval System"; 500, 5000,
\* 25000 and 100000 are approved by the handlers named "Auto-Approval
\* System", "Supervisor", "Manager" and "Director".
C13_MainNames ==
    \A t \in Goroutines :
        SampleCallDone(t)
        => /\ result[t] = "true"
           /\ Len(claimed[t]) = 1
           /\ name[claimed[t][1]] = MainApproverName(request[t].Amount)

C13_Witness ==
    \E t \in Goroutines :
        /\ SampleCallDone(t)
        /\ request[t].Amount = 500
        /\ name[claimed[t][1]] = "Auto-Approval System"

\* No handler occurs twice in hs.
Distinct(hs) == \A i, j \in DOMAIN hs : hs[i] = hs[j] => i = j

\* sq is an initial part of hs.
IsPrefix(sq, hs) ==
    /\ Len(sq) <= Len(hs)
    /\ \A i \in DOMAIN sq : sq[i] = hs[i]

\* C14: after h1.SetNext(h2).SetNext(h3)...SetNext(hn) on fresh, distinct
\* handlers each handler's next is the handler that follows it, the last
\* handler's next is nil, and a call on h1 consults the handlers in that
\* order.
C14_ChainedSetNextLinksInOrder ==
    built.done /\ Distinct(built.hs)
    => /\ \A i \in DOMAIN built.hs :
             next[built.hs[i]] =
                 IF i < Len(built.hs) THEN built.hs[i + 1] ELSE Nil
       /\ \A t \in Goroutines :
             pc[t] \in {"running", "returned"}
             => IsPrefix(consulted[t], built.hs)

C14_Witness ==
    /\ built.done
    /\ built.hs = <<"lowAmount", "lowAmount2", "mediumAmount">>
    /\ \E t \in Goroutines :
          /\ pc[t] = "returned"
          /\ consulted[t] = built.hs
          /\ claimed[t] = <<"mediumAmount">>

\* C15 as stated: once the reference chain is linked no operation changes
\* its links.
C15_BuiltChainNeverChanges ==
    [][IsReferenceChain => IsReferenceChain']_vars

\* C15 amended: names never change and no Handle call changes a link; links
\* change only by a SetNext call made while no Handle call is on the stack,
\* one link per call, so the handler that approves an amount depends on the
\* links alone: every call returns what the links at that moment determine.
C15_LinksChangeOnlyBySetNext ==
    [][/\ name' = name
       /\ next' # next
          => /\ NoCallInProgress
             /\ UNCHANGED callVars
             /\ Cardinality({h \in Handlers : next'[h] # next[h]}) = 1
       /\ \A t \in Goroutines :
             pc'[t] = "returned"
             => LET r == HandleAlone(next', head'[t], request'[t].Amount, 1)
                IN  result'[t] = r.result /\ claimed'[t] = r.by]_vars

C15_Witness ==
    \E t \in Goroutines :
        /\ pc[t] = "returned"
        /\ head[t] = "lowAmount"
        /\ request[t].Amount = 5000
        /\ result[t] = "false"
        /\ next["lowAmount"] = "manager"
        /\ next["mediumAmount"] = "manager"
        /\ next["manager"] = "director"

\* The last operation was op, called on an account in state st.
LastCallWas(op, st) == lastCall.op = op /\ lastCall.state = st

\* C16: Closed is absorbing: after Deposit, Withdraw or Close on a closed
\* account the account is still closed and its balance is what it was.
C16_ClosedAbsorbing ==
    \A op \in {"Deposit", "Withdraw", "Close"} :
        LastCallWas(op, "Closed")
        => currentState = "Closed" /\ balance = lastCall.balance

C16_Witness ==
    /\ LastCallWas("Deposit", "Closed")
    /\ lastCall.amount = 100
    /\ balance = 1300
    /\ message = "Account is closed. Cannot deposit"

\* C17: on a frozen account Withdraw changes neither the balance nor the
\* state, and Deposit adds the amount to the balance.
C17_FrozenWithdrawRefusedDepositBooked ==
    /\ LastCallWas("Withdraw", "Frozen")
       => currentState = "Frozen" /\ balance = lastCall.balance
    /\ LastCallWas("Deposit", "Frozen")
       => balance = lastCall.balance + lastCall.amount

C17_Witness ==
    /\ LastCallWas("Withdraw", "Frozen")
    /\ lastCall.amount = 50
    /\ lastCall.balance >= 50
    /\ message = "Account is frozen. Cannot withdraw"

\* C18 as stated: an active account whose balance becomes negative is
\* frozen, so after any sequence of Deposit, Withdraw and Close (no SetState,
\* no SetBalance) no account is Active with a negative balance.
C18_NoActiveNegativeBalance ==
    ~manual => ~(currentState = "Active" /\ balance < 0)

\* C19: Deposit on a frozen account moves it to Active exactly when the
\* balance after the deposit is greater than zero; otherwise it stays Frozen.
C19_UnfreezeExactlyWhenPositive ==
    LastCallWas("Deposit", "Frozen")
    => /\ currentState \in {"Active", "Frozen"}
       /\ currentState = "Active" <=> balance > 0
       /\ currentState = "Active" <=> message = "Deposited. Account unfrozen"

C19_Witness ==
    /\ LastCallWas("Deposit", "Frozen")
    /\ lastCall.balance = -100
    /\ lastCall.amount = 100
    /\ balance = 0
    /\ currentState = "Frozen"

\* C20: however the goroutines' GetInstance calls interleave, the
\* initialisation runs once, and every call returns the same instance, with
\* the whole default configuration loaded by the time it returns.
C20_InitialisedOnce ==
    /\ created <= 1
    /\ \A g \in Callers :
          got[g] # NothingReturned
          => /\ got[g].instance = 1
             /\ got[g].config = Loaded(Len(DefaultConfig))

C20_Witness ==
    /\ created = 1
    /\ \A g \in Callers : gpc[g] = "done" /\ got[g].instance = 1
    /\ got[1].config["kyc_provider"] = "internal"

\* C21 as stated: once every executed command has been undone by UndoLast
\* (the history is empty again), every account has the balance it had before
\* the first command.
C21_UndoAllRestores ==
    cmdStarted /\ history = <<>> => cmdBalance = openingBalance

\* C22: an Undo that returns a memento returns the one saved immediately
\* before the memento that was current, and a Redo right after such an Undo
\* returns the memento that was current before the Undo, unchanged since it
\* was saved.
C22_UndoRedoRoundTrip ==
    /\ mLast.op = "Undo"
       => IF mLast.current > 0
          THEN mLast.ret = mementos[mLast.current]
          ELSE mLast.ret = NoMemento
    /\ mLast.op = "Redo" /\ mPrev.op = "Undo" /\ mPrev.ret # NoMemento
       => /\ mLast.ret = mementos[mPrev.current + 1]
          /\ mcurrent = mPrev.current
          /\ mLast.ret.timestamp > mPrev.ret.timestamp

C22_Witness ==
    /\ mLast.op = "Redo"
    /\ mPrev.op = "Undo"
    /\ mPrev.ret # NoMemento
    /\ mLast.ret.balance # mPrev.ret.balance
    /\ mBalance = mPrev.ret.balance

\* C28: Save drops every memento after the current position: right after a
\* Save the new memento is the last one and the current one, so a Redo that
\* follows returns nil; and always -1 <= current <= len(mementos) - 1.
C28_SaveDiscardsRedo ==
    /\ -1 <= mcurrent
    /\ mcurrent <= Len(mementos) - 1
    /\ mLast.op = "Save"
       => /\ mcurrent = Len(mementos) - 1
          /\ mementos[mcurrent + 1] = mLast.ret
          /\ Len(mementos) = mLast.current + 2
    /\ mLast.op = "Redo" /\ mPrev.op = "Save" => mLast.ret = NoMemento

C28_Witness ==
    /\ mLast.op = "Save"
    /\ mPrev.op = "Undo"
    /\ mPrev.ret # NoMemento
    /\ Len(mementos) < mLast.len

\* What a client can read from object o: its fields, with the Features slice
\* replaced by the strings it denotes.
ObjectView(o) ==
    [objects[o] EXCEPT !.Features = SliceElems(arrays, objects[o].Features)]

\* C23: no two objects share a Features backing array, and a step that
\* creates, customizes or changes the Features of one object leaves what can
\* be read from every other object (template or clone) as it was.
C23_ClonesIndependent ==
    [][/\ \A o1, o2 \in DOMAIN objects :
             objects[o1].Features.arr = objects[o2].Features.arr => o1 = o2
       /\ \A o \in DOMAIN objects :
             o # protoActed' => ObjectView(o)' = ObjectView(o)]_vars

C23_Witness ==
    \E o1, o2 \in Clones :
        /\ o1 # o2
        /\ objects[o1].kind = "checking"
        /\ objects[o2].kind = "checking"
        /\ objects[o1].CustomerName = "John Doe"
        /\ objects[o2].CustomerName = ""
        /\ ObjectView(o1).Features[1] = "Wire Transfer"
        /\ ObjectView(o2).Features[1] = "Online Banking"
        /\ ObjectView(1).Features = <<"Online Banking", "Mobile App", "Debit Card">>

\* C24 as stated: the profile a successful Build returned holds what it held
\* when Build returned, whatever setters are called on the builder later.
C24_BuiltProfileIsACopy ==
    builtRef # 0 => profiles[builtRef] = builtView

\* C25 as stated: an observer for which RemoveObserver has returned receives
\* no Update from a later notification until it is registered again, and
\* every observer still in the list is notified.
C25_RemovedObserverNotNotified ==
    \A o \in ObserverObjects : ~lateUpdate[o] /\ ~missedUpdate[o]

\* C26 as stated: whatever Add, CreateIterator, HasNext, Next and Reset calls
\* are made identically on the two collections, the two iterators answer the
\* last HasNext or Next alike: the same bool, the same transaction, or nil
\* from both.
C26_IteratorsAgree ==
    arrResult = llResult

\* C27: CachingProxy.GetRate returns the rate RealExchangeRateService.GetRate
\* returns for the same currency pair, whether the answer came from the cache
\* or was fetched; and every cached rate is the real rate of every pair that
\* is stored under its key.
C27_CachingProxyTransparent ==
    /\ proxyRate = realRate
    /\ \A f \in Currencies, t \in Currencies :
           cache[CacheKey(f, t)] # NoRate =>
               cache[CacheKey(f, t)] = RealExchangeRateService_GetRate(f, t)

\* A cache hit for USD/EUR answered with 0.85, while the key "USD-EUR-GBP",
\* which two different pairs are formatted into, is cached as well.
C27_Witness ==
    /\ cacheHit
    /\ lastRequest = <<"USD", "EUR">>
    /\ proxyRate = 85
    /\ cache[CacheKey("USD", "EUR-GBP")] # NoRate

\* C29: while one call is writing the config map no other call is reading or
\* writing it, and a GetConfig that started after a SetConfig for its key had
\* returned reads the value of that write or of a later one.
C29_MutexProtectsConfig ==
    /\ \A g \in Callers, h \in Callers :
           (g # h /\ cpc[g] = "writing") => cpc[h] \notin {"reading", "writing"}
    /\ \A g \in Callers : ~staleRead[g]

\* A GetConfig that started after a SetConfig("transaction_limit", "20000")
\* had returned has read "20000" next to another reader, while a SetConfig of
\* a third caller waits for the lock.
C29_Witness ==
    \E g \in Callers, h \in Callers, w \in Callers :
        /\ creq[g] = [op |-> "GetConfig", key |-> "transaction_limit", value |-> ""]
        /\ cpc[g] = "runlock"
        /\ cfloor[g] = 2
        /\ cret[g]["transaction_limit"] = "20000"
        /\ h # g /\ cpc[h] = "reading"
        /\ cpc[w] = "lock"

====
